---- MODULE Spec2Model ----
(***************************************************************************)
(* ACI 318 beam-section calculator: the analysis engine                    *)
(* (utils/beamCalculations), the record types (types/beam.ts), the input   *)
(* form, the App component with its section drawing and results display,   *)
(* and the export dialog.                                                  *)
(*                                                                         *)
(* Numbers.  Two models of the JavaScript number are used.                 *)
(* The exact model is a pair <<n, d>>:                                     *)
(*   d > 0           the finite value n/d in lowest terms                  *)
(*   <<0, 1>>        +0            <<0, -1>>   -0                          *)
(*   <<1, 0>>        +Infinity     <<-1, 0>>   -Infinity                   *)
(*   <<0, 0>>        NaN                                                   *)
(* with the special values of IEEE 754 as JavaScript exposes them (signed  *)
(* zeros, x/0, NaN propagation, comparisons with NaN false), finite        *)
(* arithmetic without rounding, and Math.sqrt of a non-square truncated to *)
(* a few decimals.  The binary64 model (F64...) rounds every operation to  *)
(* nearest, ties to even, as the program does; the engine is evaluated in  *)
(* it where the last bit of a result decides a comparison.                 *)
(***************************************************************************)
EXTENDS Integers, Sequences, FiniteSets, TLC

VARIABLES
  input,    \* the BeamInput handed to analyzeBeam
  results,  \* the BeamResults analyzeBeam returned, or Null
  demand,   \* the arguments [Mu, b, d, fc, fy] handed to calculateRequiredSteel, or Null
  steel,    \* what calculateRequiredSteel returned, or Null
  rendered, \* what ResultsDisplay rendered: [warningsList: the list items], or Null
  strain,   \* the arguments [epsilon_t, epsilon_y] handed to calculatePhi and classifySection, or Null
  section,  \* what they returned: [phi, sectionType], or Null
  analyzed, \* the argument of the call of analyzeBeam the latest step made, or Null
  modal,    \* the state of ExportModal and of its export in flight, or Null
  pc        \* the step about to be made, or "done"

vars == <<input, results, demand, steel, rendered, strain, section, analyzed, modal, pc>>

Null == [null |-> TRUE]

----------------------------------------------------------------------------
(* Number arithmetic                                                       *)

Abs(k) == IF k < 0 THEN -k ELSE k

RECURSIVE Gcd(_, _)
Gcd(p, q) == IF q = 0 THEN p ELSE Gcd(q, p % q)

NaN == <<0, 0>>

Infinity == <<1, 0>>

NegInfinity == <<-1, 0>>

Zero == <<0, 1>>

NegZero == <<0, -1>>

\* the number n/d for integers n and d > 0
Q(n, d) == IF n = 0 THEN Zero ELSE LET g == Gcd(Abs(n), d) IN <<n \div g, d \div g>>

\* the integer k as a number
N(k) == <<k, 1>>

isNaN(x) == x = NaN

isFinite(x) == x[2] # 0

IsZero(x) == x[1] = 0 /\ x[2] # 0

\* the sign bit of x (false for NaN)
SignBit(x) == x[1] < 0 \/ (x[1] = 0 /\ x[2] < 0)

SignedZero(neg) == IF neg THEN NegZero ELSE Zero

SignedInfinity(neg) == IF neg THEN NegInfinity ELSE Infinity

\* unary minus
Negate(x) == IF x[1] = 0 THEN <<0, -x[2]>> ELSE <<-x[1], x[2]>>

\* x * y
Mul(x, y) ==
  LET neg == SignBit(x) # SignBit(y) IN
  IF isNaN(x) \/ isNaN(y) THEN NaN
  ELSE IF ~isFinite(x) \/ ~isFinite(y)
    THEN IF IsZero(x) \/ IsZero(y) THEN NaN ELSE SignedInfinity(neg)
  ELSE IF IsZero(x) \/ IsZero(y) THEN SignedZero(neg)
  ELSE LET g1 == Gcd(Abs(x[1]), y[2])
           g2 == Gcd(Abs(y[1]), x[2])
       IN <<(x[1] \div g1) * (y[1] \div g2), (x[2] \div g2) * (y[2] \div g1)>>

\* x / y
Div(x, y) ==
  LET neg == SignBit(x) # SignBit(y) IN
  IF isNaN(x) \/ isNaN(y) THEN NaN
  ELSE IF ~isFinite(x)
    THEN IF ~isFinite(y) THEN NaN ELSE SignedInfinity(neg)
  ELSE IF ~isFinite(y) THEN SignedZero(neg)
  ELSE IF IsZero(y)
    THEN IF IsZero(x) THEN NaN ELSE SignedInfinity(neg)
  ELSE IF IsZero(x) THEN SignedZero(neg)
  ELSE Mul(x, IF y[1] > 0 THEN <<y[2], y[1]>> ELSE <<-y[2], -y[1]>>)

\* x + y
Add(x, y) ==
  IF isNaN(x) \/ isNaN(y) THEN NaN
  ELSE IF ~isFinite(x)
    THEN IF ~isFinite(y) /\ x # y THEN NaN ELSE x
  ELSE IF ~isFinite(y) THEN y
  ELSE IF IsZero(x)
    THEN IF IsZero(y) THEN SignedZero(SignBit(x) /\ SignBit(y)) ELSE y
  ELSE IF IsZero(y) THEN x
  ELSE LET g == Gcd(x[2], y[2])
           n == x[1] * (y[2] \div g) + y[1] * (x[2] \div g)
       IN IF n = 0 THEN Zero
          ELSE LET h == Gcd(Abs(n), g)
               IN <<n \div h, (x[2] \div g) * (y[2] \div h)>>

\* x - y
Sub(x, y) == Add(x, Negate(y))

\* n1/d1 < n2/d2 for n1, n2 >= 0 and d1, d2 > 0, by continued fractions
\* (no product is formed)
RECURSIVE LtRatio(_, _, _, _)
LtRatio(n1, d1, n2, d2) ==
  IF n1 \div d1 # n2 \div d2 THEN n1 \div d1 < n2 \div d2
  ELSE IF n2 % d2 = 0 THEN FALSE
  ELSE IF n1 % d1 = 0 THEN TRUE
  ELSE LtRatio(d2, n2 % d2, d1, n1 % d1)

\* x < y
Lt(x, y) ==
  IF isNaN(x) \/ isNaN(y) THEN FALSE
  ELSE IF ~isFinite(x) THEN x = NegInfinity /\ y # NegInfinity
  ELSE IF ~isFinite(y) THEN y = Infinity
  ELSE IF x[1] < 0
    THEN IF y[1] < 0 THEN LtRatio(-y[1], y[2], -x[1], x[2]) ELSE TRUE
  ELSE IF y[1] <= 0 THEN FALSE
  ELSE IF x[1] = 0 THEN TRUE
  ELSE LtRatio(x[1], x[2], y[1], y[2])

\* x === y on numbers (+0 equals -0, NaN equals nothing)
Eq(x, y) ==
  IF isNaN(x) \/ isNaN(y) THEN FALSE
  ELSE IF IsZero(x) \/ IsZero(y) THEN IsZero(x) /\ IsZero(y)
  ELSE x = y

\* x <= y
Leq(x, y) == Lt(x, y) \/ Eq(x, y)

\* x > y
Gt(x, y) == Lt(y, x)

\* x >= y
Geq(x, y) == Leq(y, x)

\* Math.max(x, y)
MathMax(x, y) ==
  IF isNaN(x) \/ isNaN(y) THEN NaN
  ELSE IF Lt(x, y) THEN y
  ELSE IF Lt(y, x) THEN x
  ELSE IF SignBit(x) THEN y ELSE x


\* largest r in lo..hi-1 with r*r <= m, given lo*lo <= m < hi*hi
RECURSIVE IsqrtIn(_, _, _)
IsqrtIn(m, lo, hi) ==
  IF hi - lo <= 1 THEN lo
  ELSE LET mid == (lo + hi) \div 2
       IN IF mid * mid <= m THEN IsqrtIn(m, mid, hi) ELSE IsqrtIn(m, lo, mid)

\* floor of the square root of the natural number m
Isqrt(m) == IF m >= 46340 * 46340 THEN 46340 ELSE IsqrtIn(m, 0, 46340)

IsSquare(m) == Isqrt(m) * Isqrt(m) = m

RECURSIVE Pow10(_)
Pow10(k) == IF k = 0 THEN 1 ELSE 10 * Pow10(k - 1)

\* floor of n * 10^k / d, by long division
RECURSIVE DecimalFloor(_, _, _)
DecimalFloor(n, d, k) ==
  IF k = 0 THEN n \div d
  ELSE (n \div d) * Pow10(k) + DecimalFloor((n % d) * 10, d, k - 1)

\* the decimals kept of the square root of a number whose integer part is q:
\* as many as keep the scaled radicand below 2^31
SqrtDecimals(q) ==
  IF q < 21 THEN 4 ELSE IF q < 2147 THEN 3 ELSE IF q < 214748 THEN 2
  ELSE IF q < 21474836 THEN 1 ELSE 0

\* Math.sqrt(x): exact on squares of rationals, otherwise truncated to
\* SqrtDecimals decimals
MathSqrt(x) ==
  IF isNaN(x) THEN NaN
  ELSE IF IsZero(x) THEN x
  ELSE IF SignBit(x) THEN NaN
  ELSE IF ~isFinite(x) THEN Infinity
  ELSE IF IsSquare(x[1]) /\ IsSquare(x[2]) THEN Q(Isqrt(x[1]), Isqrt(x[2]))
  ELSE LET k == SqrtDecimals(x[1] \div x[2])
       IN Q(Isqrt(DecimalFloor(x[1], x[2], 2 * k)), Pow10(k))

\* Number.prototype.toFixed(digits): the text of x rounded half up to `digits`
\* decimals, as [neg, units, digits] for the text of (-)units / 10^digits
toFixed(x, digits) ==
  IF isNaN(x) THEN "NaN"
  ELSE IF x = Infinity THEN "Infinity"
  ELSE IF x = NegInfinity THEN "-Infinity"
  ELSE LET neg == Lt(x, Zero)
           y == Mul(IF neg THEN Negate(x) ELSE x, N(Pow10(digits)))
       IN [neg |-> neg,
           units |-> IF IsZero(y) THEN 0 ELSE (2 * y[1] + y[2]) \div (2 * y[2]),
           digits |-> digits]

----------------------------------------------------------------------------
(* Natural numbers of any size: the sequence of the digits in base 2^14,   *)
(* lowest first, without leading zeros (the empty sequence is 0).          *)

Base == 16384

BigDigit(x, i) == IF i <= Len(x) THEN x[i] ELSE 0

RECURSIVE BigNorm(_)
BigNorm(x) ==
  IF x = <<>> THEN <<>>
  ELSE IF x[Len(x)] = 0 THEN BigNorm(SubSeq(x, 1, Len(x) - 1))
  ELSE x

\* the natural number k < 2^31
BigOf(k) ==
  BigNorm(<<k % Base, (k \div Base) % Base, k \div (Base * Base)>>)

\* -1, 0 or 1 as x is below, equal to or above y
BigCmp(x, y) ==
  LET RECURSIVE CmpFrom(_)
      CmpFrom(i) ==
        IF i = 0 THEN 0
        ELSE IF x[i] < y[i] THEN -1
        ELSE IF x[i] > y[i] THEN 1
        ELSE CmpFrom(i - 1)
  IN IF Len(x) < Len(y) THEN -1
     ELSE IF Len(x) > Len(y) THEN 1
     ELSE CmpFrom(Len(x))

BigAdd(x, y) ==
  LET RECURSIVE AddFrom(_, _)
      AddFrom(i, carry) ==
        IF i > Len(x) /\ i > Len(y)
          THEN IF carry = 0 THEN <<>> ELSE <<carry>>
        ELSE LET s == BigDigit(x, i) + BigDigit(y, i) + carry
             IN <<s % Base>> \o AddFrom(i + 1, s \div Base)
  IN AddFrom(1, 0)

\* x - y for x >= y
BigSub(x, y) ==
  LET RECURSIVE SubFrom(_, _)
      SubFrom(i, borrow) ==
        IF i > Len(x) THEN <<>>
        ELSE LET s == x[i] - BigDigit(y, i) - borrow
             IN IF s < 0 THEN <<s + Base>> \o SubFrom(i + 1, 1)
                ELSE <<s>> \o SubFrom(i + 1, 0)
  IN BigNorm(SubFrom(1, 0))

\* x * k for 0 <= k < Base
BigMulSmall(x, k) ==
  LET RECURSIVE MulSmallFrom(_, _)
      MulSmallFrom(i, carry) ==
        IF i > Len(x)
          THEN IF carry = 0 THEN <<>> ELSE <<carry>>
        ELSE LET s == x[i] * k + carry
             IN <<s % Base>> \o MulSmallFrom(i + 1, s \div Base)
  IN IF k = 0 THEN <<>> ELSE MulSmallFrom(1, 0)

BigMul(x, y) ==
  LET RECURSIVE MulFrom(_)
      MulFrom(j) ==
        IF j > Len(y) THEN <<>>
        ELSE LET rest == MulFrom(j + 1)
             IN BigAdd(BigMulSmall(x, y[j]), IF rest = <<>> THEN <<>> ELSE <<0>> \o rest)
  IN MulFrom(1)

\* floor(x / k) and x mod k for 0 < k <= Base, by long division
BigDivSmall(x, k) ==
  LET RECURSIVE DivSmallFrom(_, _)
      DivSmallFrom(i, rem) ==
        IF i = 0 THEN [q |-> <<>>, r |-> rem]
        ELSE LET cur == rem * Base + x[i]
                 low == DivSmallFrom(i - 1, cur % k)
             IN [q |-> Append(low.q, cur \div k), r |-> low.r]
      d == DivSmallFrom(Len(x), 0)
  IN [q |-> BigNorm(d.q), r |-> d.r]

RECURSIVE Pow2(_)
Pow2(k) == IF k = 0 THEN 1 ELSE 2 * Pow2(k - 1)

RECURSIVE Zeros(_)
Zeros(n) == IF n = 0 THEN <<>> ELSE <<0>> \o Zeros(n - 1)

\* x * 2^s
BigShl(x, s) ==
  IF x = <<>> THEN <<>>
  ELSE Zeros(s \div 14) \o BigMulSmall(x, Pow2(s % 14))

RECURSIVE AnyNonZero(_, _)
AnyNonZero(x, n) == n > 0 /\ (x[n] # 0 \/ AnyNonZero(x, n - 1))

\* floor(x / 2^s), and whether a bit was shifted out
BigShr(x, s) ==
  IF s \div 14 >= Len(x) THEN [q |-> <<>>, sticky |-> x # <<>>]
  ELSE LET high == SubSeq(x, s \div 14 + 1, Len(x))
           d == BigDivSmall(high, Pow2(s % 14))
       IN [q |-> d.q, sticky |-> d.r # 0 \/ AnyNonZero(x, s \div 14)]

RECURSIVE BitLen(_)
BitLen(k) == IF k = 0 THEN 0 ELSE 1 + BitLen(k \div 2)

\* the number of binary digits of x
BigBitLen(x) == IF x = <<>> THEN 0 ELSE (Len(x) - 1) * 14 + BitLen(x[Len(x)])

\* the largest digit q in lo..hi-1 with y * q <= r, given y * lo <= r < y * hi
RECURSIVE BigDigitOf(_, _, _, _)
BigDigitOf(r, y, lo, hi) ==
  IF hi - lo <= 1 THEN lo
  ELSE LET mid == (lo + hi) \div 2
       IN IF BigCmp(BigMulSmall(y, mid), r) <= 0
            THEN BigDigitOf(r, y, mid, hi)
            ELSE BigDigitOf(r, y, lo, mid)

\* floor(x / y) and x mod y for y > 0, by long division
BigDivMod(x, y) ==
  LET RECURSIVE DivModFrom(_, _)
      DivModFrom(i, rem) ==
        IF i = 0 THEN [q |-> <<>>, r |-> rem]
        ELSE LET cur == BigNorm(<<x[i]>> \o rem)
                 digit == IF BigCmp(cur, y) < 0 THEN 0 ELSE BigDigitOf(cur, y, 1, Base)
                 low == DivModFrom(i - 1, BigSub(cur, BigMulSmall(y, digit)))
             IN [q |-> Append(low.q, digit), r |-> low.r]
      d == DivModFrom(Len(x), <<>>)
  IN [q |-> BigNorm(d.q), r |-> d.r]


\* floor of the square root of x, one binary digit at a time from the top
BigIsqrt(x) ==
  LET RECURSIVE IsqrtFrom(_, _)
      IsqrtFrom(s, bit) ==
        IF bit < 0 THEN s
        ELSE LET cand == BigAdd(s, BigShl(<<1>>, bit))
             IN IF BigCmp(BigMul(cand, cand), x) <= 0
                  THEN IsqrtFrom(cand, bit - 1)
                  ELSE IsqrtFrom(s, bit - 1)
  IN IsqrtFrom(<<>>, BigBitLen(x) \div 2)

RECURSIVE BigToInt(_)
\* the value of x < 2^31
BigToInt(x) == IF x = <<>> THEN 0 ELSE x[1] + Base * BigToInt(Tail(x))

----------------------------------------------------------------------------
(* IEEE 754 binary64, the number type of the program.  A finite non-zero   *)
(* value is (-1)^neg * m * 2^e with 2^52 <= m < 2^53; results are rounded  *)
(* to nearest, ties to even.  Exponents stay far from the limits of the    *)
(* format for the values analysed, so overflow and subnormals are left out.*)

F64Zero(neg) == [kind |-> "zero", neg |-> neg, m |-> <<>>, e |-> 0]

F64Inf(neg) == [kind |-> "inf", neg |-> neg, m |-> <<>>, e |-> 0]

F64NaN == [kind |-> "nan", neg |-> FALSE, m |-> <<>>, e |-> 0]

F64Finite(neg, m, e) == [kind |-> "finite", neg |-> neg, m |-> m, e |-> e]

\* r, of 53 binary digits, or of 54 after a carry out of the rounding
F64Carry(neg, r, E) ==
  IF BigBitLen(r) = 54 THEN F64Finite(neg, BigShr(r, 1).q, E + 1)
  ELSE F64Finite(neg, r, E)

\* q.q, of 53 binary digits, rounded by the digit q.r below it: up when
\* that digit is 1 and either a lower digit is set (below) or q.q is odd
F64RoundHalf(neg, q, below, E) ==
  F64Carry(neg, IF q.r = 1 /\ (below \/ q.q[1] % 2 = 1) THEN BigAdd(q.q, <<1>>) ELSE q.q, E)

\* F64Round for M of len binary digits
F64RoundLen(neg, M, E, sticky, len) ==
  IF len <= 53 THEN F64Finite(neg, BigShl(M, 53 - len), E - (53 - len))
  ELSE F64RoundHalf(neg, BigDivSmall(BigShr(M, len - 54).q, 2),
                    BigShr(M, len - 54).sticky \/ sticky, E + (len - 53))

\* the binary64 nearest to (-1)^neg * (M + f) * 2^E, where 0 <= f < 1 and
\* sticky tells f # 0 (M has 55 bits or more when sticky)
F64Round(neg, M, E, sticky) ==
  IF M = <<>> THEN F64Zero(neg) ELSE F64RoundLen(neg, M, E, sticky, BigBitLen(M))

\* F64Round of the quotient d.q, inexact when the remainder d.r is not 0
F64RoundQuotient(neg, d, E) == F64Round(neg, d.q, E, d.r # <<>>)

\* the binary64 of the integer k, |k| < 2^31
F64OfInt(k) == F64Round(k < 0, BigOf(IF k < 0 THEN -k ELSE k), 0, FALSE)

F64Neg(x) == IF x.kind = "nan" THEN x ELSE [x EXCEPT !.neg = ~x.neg]

\* operator *
F64Mul(x, y) ==
  IF x.kind = "nan" \/ y.kind = "nan" THEN F64NaN
  ELSE IF x.kind = "inf" \/ y.kind = "inf"
    THEN IF x.kind = "zero" \/ y.kind = "zero" THEN F64NaN ELSE F64Inf(x.neg # y.neg)
  ELSE IF x.kind = "zero" \/ y.kind = "zero" THEN F64Zero(x.neg # y.neg)
  ELSE F64Round(x.neg # y.neg, BigMul(x.m, y.m), x.e + y.e, FALSE)

\* operator /
F64Div(x, y) ==
  IF x.kind = "nan" \/ y.kind = "nan" THEN F64NaN
  ELSE IF x.kind = "inf"
    THEN IF y.kind = "inf" THEN F64NaN ELSE F64Inf(x.neg # y.neg)
  ELSE IF y.kind = "inf" THEN F64Zero(x.neg # y.neg)
  ELSE IF y.kind = "zero"
    THEN IF x.kind = "zero" THEN F64NaN ELSE F64Inf(x.neg # y.neg)
  ELSE IF x.kind = "zero" THEN F64Zero(x.neg # y.neg)
  ELSE F64RoundQuotient(x.neg # y.neg, BigDivMod(BigShl(x.m, 56), y.m), x.e - y.e - 56)

\* the sum of (-1)^xneg * X * 2^e and (-1)^yneg * Y * 2^e
F64AddAligned(xneg, X, yneg, Y, e) ==
  IF xneg = yneg THEN F64Round(xneg, BigAdd(X, Y), e, FALSE)
  ELSE IF BigCmp(X, Y) = 0 THEN F64Zero(FALSE)
  ELSE IF BigCmp(X, Y) > 0 THEN F64Round(xneg, BigSub(X, Y), e, FALSE)
  ELSE F64Round(yneg, BigSub(Y, X), e, FALSE)

\* operator +
F64Add(x, y) ==
  IF x.kind = "nan" \/ y.kind = "nan" THEN F64NaN
  ELSE IF x.kind = "inf"
    THEN IF y.kind = "inf" /\ x.neg # y.neg THEN F64NaN ELSE x
  ELSE IF y.kind = "inf" THEN y
  ELSE IF x.kind = "zero"
    THEN IF y.kind = "zero" THEN F64Zero(x.neg /\ y.neg) ELSE y
  ELSE IF y.kind = "zero" THEN x
  ELSE IF x.e < y.e
    THEN F64AddAligned(x.neg, x.m, y.neg, BigShl(y.m, y.e - x.e), x.e)
  ELSE F64AddAligned(x.neg, BigShl(x.m, x.e - y.e), y.neg, y.m, y.e)

\* operator - (binary)
F64Sub(x, y) == F64Add(x, F64Neg(y))

\* -1, 0 or 1 as |x| is below, equal to or above |y| (neither is NaN)
F64CmpAbs(x, y) ==
  LET rank(z) == IF z.kind = "zero" THEN 0 ELSE IF z.kind = "finite" THEN 1 ELSE 2
  IN IF rank(x) # rank(y) THEN (IF rank(x) < rank(y) THEN -1 ELSE 1)
     ELSE IF x.kind # "finite" THEN 0
     ELSE IF x.e # y.e THEN (IF x.e < y.e THEN -1 ELSE 1)
     ELSE BigCmp(x.m, y.m)

\* operator <
F64Lt(x, y) ==
  /\ x.kind # "nan"
  /\ y.kind # "nan"
  /\ LET sx == IF x.kind = "zero" THEN 0 ELSE IF x.neg THEN -1 ELSE 1
         sy == IF y.kind = "zero" THEN 0 ELSE IF y.neg THEN -1 ELSE 1
     IN IF sx # sy THEN sx < sy
        ELSE IF sx = 0 THEN FALSE
        ELSE IF sx > 0 THEN F64CmpAbs(x, y) < 0
        ELSE F64CmpAbs(x, y) > 0

\* operator <=
F64Leq(x, y) == x.kind # "nan" /\ y.kind # "nan" /\ ~F64Lt(y, x)

\* operator >
F64Gt(x, y) == F64Lt(y, x)

\* operator >=
F64Geq(x, y) == F64Leq(y, x)

\* Math.max(x, y)
F64Max(x, y) ==
  IF x.kind = "nan" \/ y.kind = "nan" THEN F64NaN
  ELSE IF F64Lt(x, y) THEN y
  ELSE IF F64Lt(y, x) THEN x
  ELSE IF x.neg THEN y ELSE x

\* the root s = floor(sqrt(M)) rounded, inexact when M is not a square
F64RoundRoot(s, M, E) == F64Round(FALSE, s, E, BigMul(s, s) # M)

\* Math.sqrt(x)
F64Sqrt(x) ==
  IF x.kind = "nan" THEN F64NaN
  ELSE IF x.kind = "zero" THEN x
  ELSE IF x.neg THEN F64NaN
  ELSE IF x.kind = "inf" THEN x
  ELSE LET k == IF (x.e - 58) % 2 = 0 THEN 58 ELSE 59
       IN F64RoundRoot(BigIsqrt(BigShl(x.m, k)), BigShl(x.m, k), (x.e - k) \div 2)

\* the binary64 of a decimal literal or of a parsed decimal text n/d
F64Of(q) ==
  IF q[2] = 0 THEN (IF q[1] = 0 THEN F64NaN ELSE F64Inf(q[1] < 0))
  ELSE IF q[1] = 0 THEN F64Zero(q[2] < 0)
  ELSE F64Div(F64OfInt(q[1]), F64OfInt(q[2]))

RECURSIVE BigPow10(_)
BigPow10(k) == IF k = 0 THEN <<1>> ELSE BigMulSmall(BigPow10(k - 1), 10)

\* Number.prototype.toFixed(digits): the integer nearest to |x| * 10^digits
\* (the larger of two equally near), as [neg, units, digits]
F64toFixed(x, digits) ==
  IF x.kind = "nan" THEN "NaN"
  ELSE IF x.kind = "inf" THEN (IF x.neg THEN "-Infinity" ELSE "Infinity")
  ELSE IF x.kind = "zero" THEN [neg |-> FALSE, units |-> 0, digits |-> digits]
  ELSE LET scaled == BigMul(x.m, BigPow10(digits))
           units == IF x.e >= 0 THEN BigShl(scaled, x.e)
                    ELSE BigShr(BigAdd(BigShl(scaled, 1), BigShl(<<1>>, -x.e)), 1 - x.e).q
       IN [neg |-> x.neg, units |-> BigToInt(units), digits |-> digits]

----------------------------------------------------------------------------
(* Text.  A message is the sequence of its leading word's characters       *)
(* followed by the pieces of the rest of its text, so that startsWith on   *)
(* a word compares characters.                                             *)

WarningWord == <<"W", "a", "r", "n", "i", "n", "g">>

NoteWord == <<"N", "o", "t", "e">>

ErrorWord == <<"E", "r", "r", "o", "r">>

\* String.prototype.startsWith
startsWith(s, prefix) ==
  Len(s) >= Len(prefix) /\ SubSeq(s, 1, Len(prefix)) = prefix

----------------------------------------------------------------------------
(* utils/beamCalculations                                                  *)

EPSILON_CU == Q(3, 1000)

\* calculateBeta1 without the constant 0.85 up to 4000 psi
calculateBeta1_NoCap(fc) ==
  MathMax(Sub(Q(85, 100), Mul(Q(5, 100), Div(Sub(fc, N(4000)), N(1000)))), Q(65, 100))

\* calculateBeta1 without its floor of 0.65
calculateBeta1_NoFloor(fc) ==
  IF Leq(fc, N(4000)) THEN Q(85, 100)
  ELSE Sub(Q(85, 100), Mul(Q(5, 100), Div(Sub(fc, N(4000)), N(1000))))

calculateBeta1(fc) ==
  IF Leq(fc, N(4000)) THEN Q(85, 100)
  ELSE LET beta1 == Sub(Q(85, 100), Mul(Q(5, 100), Div(Sub(fc, N(4000)), N(1000))))
       IN MathMax(beta1, Q(65, 100))

calculateEpsilonY(fy, Es) == Div(fy, Es)

calculateStressBlockDepth(As, fy, fc, b) ==
  Div(Mul(As, fy), Mul(Mul(Q(85, 100), fc), b))

\* calculateNeutralAxisDepth multiplying by beta1 instead of dividing
calculateNeutralAxisDepth_Times(a, beta1) == Mul(a, beta1)

calculateNeutralAxisDepth(a, beta1) == Div(a, beta1)

\* calculateTensionStrain with the distance |d - c| for d - c
calculateTensionStrain_Magnitude(d, c, epsilon_cu) ==
  IF Leq(c, Zero) THEN Infinity
  ELSE Div(Mul(epsilon_cu, MathMax(Sub(d, c), Sub(c, d))), c)

\* calculateTensionStrain with a negative strain clamped to zero
calculateTensionStrain_Clamped(d, c, epsilon_cu) ==
  IF Leq(c, Zero) THEN Infinity
  ELSE MathMax(Zero, Div(Mul(epsilon_cu, Sub(d, c)), c))

\* calculateTensionStrain with 0 for its sentinel
calculateTensionStrain_ZeroSentinel(d, c, epsilon_cu) ==
  IF Leq(c, Zero) THEN Zero
  ELSE Div(Mul(epsilon_cu, Sub(d, c)), c)

calculateTensionStrain(d, c, epsilon_cu) ==
  IF Leq(c, Zero) THEN Infinity
  ELSE Div(Mul(epsilon_cu, Sub(d, c)), c)

\* the interpolation measured over the whole of 0.005 instead of 0.005 - epsilon_y
phiTransition_FullSpan(epsilon_t, epsilon_y) ==
  Add(Q(65, 100),
      Div(Mul(Q(25, 100), Sub(epsilon_t, epsilon_y)), Q(5, 1000)))

\* calculatePhi, the linear interpolation of the transition zone
phiTransition(epsilon_t, epsilon_y) ==
  Add(Q(65, 100),
      Div(Mul(Q(25, 100), Sub(epsilon_t, epsilon_y)),
          Sub(Q(5, 1000), epsilon_y)))

\* calculatePhi without its compression-controlled branch
calculatePhi_NoCompression(epsilon_t, epsilon_y) ==
  IF Geq(epsilon_t, Q(5, 1000)) THEN Q(90, 100)
  ELSE phiTransition(epsilon_t, epsilon_y)

calculatePhi(epsilon_t, epsilon_y) ==
  IF Geq(epsilon_t, Q(5, 1000)) THEN Q(90, 100)
  ELSE IF Leq(epsilon_t, epsilon_y) THEN Q(65, 100)
  ELSE phiTransition(epsilon_t, epsilon_y)

\* classifySection comparing with the fixed yield strain 0.002 of Grade 60 steel
classifySection_FixedYield(epsilon_t, epsilon_y) ==
  IF Geq(epsilon_t, Q(5, 1000)) THEN "tension-controlled"
  ELSE IF Leq(epsilon_t, Q(2, 1000)) THEN "compression-controlled"
  ELSE "transition"

classifySection(epsilon_t, epsilon_y) ==
  IF Geq(epsilon_t, Q(5, 1000)) THEN "tension-controlled"
  ELSE IF Leq(epsilon_t, epsilon_y) THEN "compression-controlled"
  ELSE "transition"

calculateRhoBalanced(fc, fy, beta1, epsilon_y, epsilon_cu) ==
  Mul(Div(Mul(Mul(Q(85, 100), beta1), fc), fy),
      Div(epsilon_cu, Add(epsilon_cu, epsilon_y)))

calculateRhoMax(fc, fy, beta1, epsilon_cu) ==
  LET epsilon_t_min == Q(4, 1000)
  IN Mul(Div(Mul(Mul(Q(85, 100), beta1), fc), fy),
         Div(epsilon_cu, Add(epsilon_cu, epsilon_t_min)))

calculateRhoMin(fc, fy) ==
  LET rho1 == Div(Mul(N(3), MathSqrt(fc)), fy)
      rho2 == Div(N(200), fy)
  IN MathMax(rho1, rho2)

\* calculateMn giving no moment when the stress block is deeper than the steel
calculateMn_Guarded(As, fy, d, a) ==
  IF Gt(a, d) THEN Zero ELSE Mul(Mul(As, fy), Sub(d, Div(a, N(2))))

calculateMn(As, fy, d, a) == Mul(Mul(As, fy), Sub(d, Div(a, N(2))))

\* convertToKipFt converting pounds to kips but not inches to feet
convertToKipFt_KipInches(moment_lb_in) == Div(moment_lb_in, N(1000))

convertToKipFt(moment_lb_in) == Div(moment_lb_in, N(1000 * 12))


\* the text of the seven diagnostic messages
MsgNoYield ==
  WarningWord \o <<": Tension steel does not yield at ultimate. Section is over-reinforced.">>

MsgBelowMin(rho, rho_min) ==
  WarningWord \o <<": Reinforcement ratio (", toFixed(Mul(rho, N(100)), 3),
                   "%) is less than minimum (", toFixed(Mul(rho_min, N(100)), 3),
                   "%). Per ACI 318, As,min requirements may govern.">>

MsgAboveMax(rho, rho_max) ==
  WarningWord \o <<": Reinforcement ratio (", toFixed(Mul(rho, N(100)), 3),
                   "%) exceeds maximum (", toFixed(Mul(rho_max, N(100)), 3),
                   "%). Section may not have adequate ductility.">>

MsgCompression ==
  WarningWord \o <<": Section is compression-controlled. Consider reducing reinforcement for better ductility.">>

MsgTransition ==
  NoteWord \o <<": Section is in the transition zone between tension and compression controlled.">>

MsgStressBlock ==
  ErrorWord \o <<": Stress block depth exceeds effective depth. Check input values.">>

MsgNeutralAxis ==
  ErrorWord \o <<": Neutral axis is at or below tension steel. Invalid configuration.">>

\* if (cond) warnings.push(msg)
PushIf(cond, warnings, msg) == IF cond THEN Append(warnings, msg) ELSE warnings

\* performChecks with the minimum-reinforcement comparison the wrong way round
performChecks_Inverted(epsilon_t, epsilon_y, rho, rho_min, rho_max) ==
  [steelYields |-> Geq(epsilon_t, epsilon_y),
   isAdequatelyReinforced |-> Geq(rho_min, rho),
   isNotOverReinforced |-> Leq(rho, rho_max)]

\* analyzeBeam, "Perform checks"
performChecks(epsilon_t, epsilon_y, rho, rho_min, rho_max) ==
  [steelYields |-> Geq(epsilon_t, epsilon_y),
   isAdequatelyReinforced |-> Geq(rho, rho_min),
   isNotOverReinforced |-> Leq(rho, rho_max)]

\* generateWarnings with the two geometry errors pushed in the other order
generateWarnings_ErrorsSwapped(checks, sectionType, rho, rho_min, rho_max, a, c, d) ==
  LET w0 == <<>>
      w1 == PushIf(~checks.steelYields, w0, MsgNoYield)
      w2 == PushIf(~checks.isAdequatelyReinforced, w1, MsgBelowMin(rho, rho_min))
      w3 == PushIf(~checks.isNotOverReinforced, w2, MsgAboveMax(rho, rho_max))
      w4 == PushIf(sectionType = "compression-controlled", w3, MsgCompression)
      w5 == PushIf(sectionType = "transition", w4, MsgTransition)
      w6 == PushIf(Geq(c, d), w5, MsgNeutralAxis)
      w7 == PushIf(Gt(a, d), w6, MsgStressBlock)
  IN w7

\* generateWarnings with the neutral-axis error only for c > d
generateWarnings_StrictAxis(checks, sectionType, rho, rho_min, rho_max, a, c, d) ==
  LET w0 == <<>>
      w1 == PushIf(~checks.steelYields, w0, MsgNoYield)
      w2 == PushIf(~checks.isAdequatelyReinforced, w1, MsgBelowMin(rho, rho_min))
      w3 == PushIf(~checks.isNotOverReinforced, w2, MsgAboveMax(rho, rho_max))
      w4 == PushIf(sectionType = "compression-controlled", w3, MsgCompression)
      w5 == PushIf(sectionType = "transition", w4, MsgTransition)
      w6 == PushIf(Gt(a, d), w5, MsgStressBlock)
      w7 == PushIf(Gt(c, d), w6, MsgNeutralAxis)
  IN w7

\* analyzeBeam, "Generate warnings"
generateWarnings(checks, sectionType, rho, rho_min, rho_max, a, c, d) ==
  LET w0 == <<>>
      w1 == PushIf(~checks.steelYields, w0, MsgNoYield)
      w2 == PushIf(~checks.isAdequatelyReinforced, w1, MsgBelowMin(rho, rho_min))
      w3 == PushIf(~checks.isNotOverReinforced, w2, MsgAboveMax(rho, rho_max))
      w4 == PushIf(sectionType = "compression-controlled", w3, MsgCompression)
      w5 == PushIf(sectionType = "transition", w4, MsgTransition)
      w6 == PushIf(Gt(a, d), w5, MsgStressBlock)
      w7 == PushIf(Geq(c, d), w6, MsgNeutralAxis)
  IN w7

\* analyzeBeam taking the net steel As - As_prime for the tension steel
analyzeBeam_NetSteel(in) ==
  LET b == in.b
      d == in.d
      fc == in.fc
      fy == in.fy
      Es == in.Es
      As == Sub(in.As, in.As_prime)
      beta1 == calculateBeta1(fc)
      epsilon_y == calculateEpsilonY(fy, Es)
      a == calculateStressBlockDepth(As, fy, fc, b)
      c == calculateNeutralAxisDepth(a, beta1)
      epsilon_t == calculateTensionStrain(d, c, EPSILON_CU)
      phi == calculatePhi(epsilon_t, epsilon_y)
      sectionType == classifySection(epsilon_t, epsilon_y)
      rho == Div(As, Mul(b, d))
      rho_b == calculateRhoBalanced(fc, fy, beta1, epsilon_y, EPSILON_CU)
      rho_max == calculateRhoMax(fc, fy, beta1, EPSILON_CU)
      rho_min == calculateRhoMin(fc, fy)
      Mn == calculateMn(As, fy, d, a)
      phiMn == Mul(phi, Mn)
      checks == performChecks(epsilon_t, epsilon_y, rho, rho_min, rho_max)
      warnings == generateWarnings(checks, sectionType, rho, rho_min, rho_max, a, c, d)
  IN [beta1 |-> beta1,
      a |-> a,
      c |-> c,
      epsilon_t |-> epsilon_t,
      epsilon_y |-> epsilon_y,
      epsilon_cu |-> EPSILON_CU,
      rho |-> rho,
      rho_b |-> rho_b,
      rho_max |-> rho_max,
      rho_min |-> rho_min,
      Mn |-> Mn,
      Mn_kip_ft |-> convertToKipFt(Mn),
      phi |-> phi,
      phiMn |-> phiMn,
      phiMn_kip_ft |-> convertToKipFt(phiMn),
      sectionType |-> sectionType,
      isAdequatelyReinforced |-> checks.isAdequatelyReinforced,
      isNotOverReinforced |-> checks.isNotOverReinforced,
      steelYields |-> checks.steelYields,
      warnings |-> warnings]

analyzeBeam(in) ==
  LET b == in.b
      d == in.d
      fc == in.fc
      fy == in.fy
      Es == in.Es
      As == in.As
      beta1 == calculateBeta1(fc)
      epsilon_y == calculateEpsilonY(fy, Es)
      a == calculateStressBlockDepth(As, fy, fc, b)
      c == calculateNeutralAxisDepth(a, beta1)
      epsilon_t == calculateTensionStrain(d, c, EPSILON_CU)
      phi == calculatePhi(epsilon_t, epsilon_y)
      sectionType == classifySection(epsilon_t, epsilon_y)
      rho == Div(As, Mul(b, d))
      rho_b == calculateRhoBalanced(fc, fy, beta1, epsilon_y, EPSILON_CU)
      rho_max == calculateRhoMax(fc, fy, beta1, EPSILON_CU)
      rho_min == calculateRhoMin(fc, fy)
      Mn == calculateMn(As, fy, d, a)
      phiMn == Mul(phi, Mn)
      checks == performChecks(epsilon_t, epsilon_y, rho, rho_min, rho_max)
      warnings == generateWarnings(checks, sectionType, rho, rho_min, rho_max, a, c, d)
  IN [beta1 |-> beta1,
      a |-> a,
      c |-> c,
      epsilon_t |-> epsilon_t,
      epsilon_y |-> epsilon_y,
      epsilon_cu |-> EPSILON_CU,
      rho |-> rho,
      rho_b |-> rho_b,
      rho_max |-> rho_max,
      rho_min |-> rho_min,
      Mn |-> Mn,
      Mn_kip_ft |-> convertToKipFt(Mn),
      phi |-> phi,
      phiMn |-> phiMn,
      phiMn_kip_ft |-> convertToKipFt(phiMn),
      sectionType |-> sectionType,
      isAdequatelyReinforced |-> checks.isAdequatelyReinforced,
      isNotOverReinforced |-> checks.isNotOverReinforced,
      steelYields |-> checks.steelYields,
      warnings |-> warnings]

MsgCannotCarry ==
  <<"Section cannot carry the applied moment. Increase section size.">>

MsgExceedsMax(rho_required, rho_max) ==
  <<"Required reinforcement ratio (", toFixed(Mul(rho_required, N(100)), 3),
    "%) exceeds maximum (", toFixed(Mul(rho_max, N(100)), 3), "%).">>

MsgOK == <<"OK">>

\* calculateRequiredSteel, the required ratio solved from the stress-block quadratic
rhoRequired(mu, b, d, fc, fy) ==
  LET phi == Q(9, 10)
      R_n == Div(mu, Mul(Mul(Mul(phi, b), d), d))
  IN Mul(Div(Mul(Q(85, 100), fc), fy),
         Sub(N(1), MathSqrt(Sub(N(1), Div(Mul(N(2), R_n), Mul(Q(85, 100), fc))))))

\* calculateRequiredSteel without the isNaN test of the required ratio
calculateRequiredSteel_NoNaNCheck(mu, b, d, fc, fy) ==
  LET rho_required == rhoRequired(mu, b, d, fc, fy)
  IN IF Lt(rho_required, Zero)
       THEN [As_required |-> Zero, isValid |-> FALSE, message |-> MsgCannotCarry]
     ELSE LET As_required == Mul(Mul(rho_required, b), d)
              rho_max == calculateRhoMax(fc, fy, calculateBeta1(fc), EPSILON_CU)
          IN IF Gt(rho_required, rho_max)
               THEN [As_required |-> As_required, isValid |-> FALSE,
                     message |-> MsgExceedsMax(rho_required, rho_max)]
             ELSE [As_required |-> As_required, isValid |-> TRUE, message |-> MsgOK]

\* calculateRequiredSteel without the comparison with the maximum ratio
calculateRequiredSteel_NoMaxCheck(mu, b, d, fc, fy) ==
  LET rho_required == rhoRequired(mu, b, d, fc, fy)
  IN IF isNaN(rho_required) \/ Lt(rho_required, Zero)
       THEN [As_required |-> Zero, isValid |-> FALSE, message |-> MsgCannotCarry]
     ELSE [As_required |-> Mul(Mul(rho_required, b), d), isValid |-> TRUE,
           message |-> MsgOK]

calculateRequiredSteel(mu, b, d, fc, fy) ==
  LET rho_required == rhoRequired(mu, b, d, fc, fy)
  IN IF isNaN(rho_required) \/ Lt(rho_required, Zero)
       THEN [As_required |-> Zero, isValid |-> FALSE, message |-> MsgCannotCarry]
     ELSE LET As_required == Mul(Mul(rho_required, b), d)
              rho_max == calculateRhoMax(fc, fy, calculateBeta1(fc), EPSILON_CU)
          IN IF Gt(rho_required, rho_max)
               THEN [As_required |-> As_required, isValid |-> FALSE,
                     message |-> MsgExceedsMax(rho_required, rho_max)]
             ELSE [As_required |-> As_required, isValid |-> TRUE, message |-> MsgOK]

----------------------------------------------------------------------------
(* utils/beamCalculations evaluated in binary64: the same expressions,     *)
(* every operation rounded as the program rounds it.                       *)

\* the binary64 of the decimal literal n/d
F64Q(n, d) == F64Of(Q(n, d))

EPSILON_CU_Binary64 == F64Q(3, 1000)

calculateBeta1Binary64(fc) ==
  IF F64Leq(fc, F64OfInt(4000)) THEN F64Q(85, 100)
  ELSE F64Max(F64Sub(F64Q(85, 100),
                     F64Mul(F64Q(5, 100),
                            F64Div(F64Sub(fc, F64OfInt(4000)), F64OfInt(1000)))),
              F64Q(65, 100))

calculateEpsilonYBinary64(fy, Es) == F64Div(fy, Es)

calculateStressBlockDepthBinary64(As, fy, fc, b) ==
  F64Div(F64Mul(As, fy), F64Mul(F64Mul(F64Q(85, 100), fc), b))

calculateNeutralAxisDepthBinary64(a, beta1) == F64Div(a, beta1)

calculateTensionStrainBinary64(d, c, epsilon_cu) ==
  IF F64Leq(c, F64Zero(FALSE)) THEN F64Inf(FALSE)
  ELSE F64Div(F64Mul(epsilon_cu, F64Sub(d, c)), c)

calculatePhiBinary64(epsilon_t, epsilon_y) ==
  IF F64Geq(epsilon_t, F64Q(5, 1000)) THEN F64Q(90, 100)
  ELSE IF F64Leq(epsilon_t, epsilon_y) THEN F64Q(65, 100)
  ELSE F64Add(F64Q(65, 100),
              F64Div(F64Mul(F64Q(25, 100), F64Sub(epsilon_t, epsilon_y)),
                     F64Sub(F64Q(5, 1000), epsilon_y)))

classifySectionBinary64(epsilon_t, epsilon_y) ==
  IF F64Geq(epsilon_t, F64Q(5, 1000)) THEN "tension-controlled"
  ELSE IF F64Leq(epsilon_t, epsilon_y) THEN "compression-controlled"
  ELSE "transition"

calculateRhoBalancedBinary64(fc, fy, beta1, epsilon_y, epsilon_cu) ==
  F64Mul(F64Div(F64Mul(F64Mul(F64Q(85, 100), beta1), fc), fy),
         F64Div(epsilon_cu, F64Add(epsilon_cu, epsilon_y)))

calculateRhoMaxBinary64(fc, fy, beta1, epsilon_cu) ==
  LET epsilon_t_min == F64Q(4, 1000)
  IN F64Mul(F64Div(F64Mul(F64Mul(F64Q(85, 100), beta1), fc), fy),
            F64Div(epsilon_cu, F64Add(epsilon_cu, epsilon_t_min)))

calculateRhoMinBinary64(fc, fy) ==
  LET rho1 == F64Div(F64Mul(F64OfInt(3), F64Sqrt(fc)), fy)
      rho2 == F64Div(F64OfInt(200), fy)
  IN F64Max(rho1, rho2)

calculateMnBinary64(As, fy, d, a) ==
  F64Mul(F64Mul(As, fy), F64Sub(d, F64Div(a, F64OfInt(2))))

convertToKipFtBinary64(moment_lb_in) == F64Div(moment_lb_in, F64OfInt(1000 * 12))

MsgBelowMinBinary64(rho, rho_min) ==
  WarningWord \o <<": Reinforcement ratio (", F64toFixed(F64Mul(rho, F64OfInt(100)), 3),
                   "%) is less than minimum (", F64toFixed(F64Mul(rho_min, F64OfInt(100)), 3),
                   "%). Per ACI 318, As,min requirements may govern.">>

MsgAboveMaxBinary64(rho, rho_max) ==
  WarningWord \o <<": Reinforcement ratio (", F64toFixed(F64Mul(rho, F64OfInt(100)), 3),
                   "%) exceeds maximum (", F64toFixed(F64Mul(rho_max, F64OfInt(100)), 3),
                   "%). Section may not have adequate ductility.">>

\* analyzeBeam, "Perform checks"
performChecksBinary64(epsilon_t, epsilon_y, rho, rho_min, rho_max) ==
  [steelYields |-> F64Geq(epsilon_t, epsilon_y),
   isAdequatelyReinforced |-> F64Geq(rho, rho_min),
   isNotOverReinforced |-> F64Leq(rho, rho_max)]

\* analyzeBeam, "Generate warnings"
generateWarningsBinary64(checks, sectionType, rho, rho_min, rho_max, a, c, d) ==
  LET w0 == <<>>
      w1 == PushIf(~checks.steelYields, w0, MsgNoYield)
      w2 == PushIf(~checks.isAdequatelyReinforced, w1, MsgBelowMinBinary64(rho, rho_min))
      w3 == PushIf(~checks.isNotOverReinforced, w2, MsgAboveMaxBinary64(rho, rho_max))
      w4 == PushIf(sectionType = "compression-controlled", w3, MsgCompression)
      w5 == PushIf(sectionType = "transition", w4, MsgTransition)
      w6 == PushIf(F64Gt(a, d), w5, MsgStressBlock)
      w7 == PushIf(F64Geq(c, d), w6, MsgNeutralAxis)
  IN w7

----------------------------------------------------------------------------
(* components/ResultsDisplay: the class of a warnings entry                *)

\* warningClass deciding by the word "Warning" instead of the word "Error"
warningClass_ByWarningWord(warning) ==
  IF startsWith(warning, WarningWord) THEN "warning" ELSE "error"

\* the className of the list item of one warnings entry
warningClass(warning) == IF startsWith(warning, ErrorWord) THEN "error" ELSE "warning"

\* the list items of the "Warnings & Notes" section, empty when there are no warnings
warningsList(res) ==
  [index \in 1..Len(res.warnings) |->
     [className |-> warningClass(res.warnings[index]), text |-> res.warnings[index]]]


----------------------------------------------------------------------------
(* types/beam.ts                                                           *)

DEFAULT_BEAM_INPUT ==
  [b |-> N(12), h |-> N(24), d |-> Q(43, 2), d_prime |-> Q(5, 2),
   fc |-> N(4000), fy |-> N(60000), Es |-> N(29000000),
   As |-> N(3), As_prime |-> Zero]

\* the bar areas, in hundredths of a square inch
REBAR_AREAS ==
  [barSize \in {"#3", "#4", "#5", "#6", "#7", "#8", "#9", "#10", "#11", "#14", "#18"} |->
     CASE barSize = "#3" -> 11 [] barSize = "#4" -> 20 [] barSize = "#5" -> 31
       [] barSize = "#6" -> 44 [] barSize = "#7" -> 60 [] barSize = "#8" -> 79
       [] barSize = "#9" -> 100 [] barSize = "#10" -> 127 [] barSize = "#11" -> 156
       [] barSize = "#14" -> 225 [] barSize = "#18" -> 400]

CONCRETE_STRENGTHS == {3000, 4000, 5000, 6000, 7000, 8000}

STEEL_GRADES == {40000, 60000, 75000, 80000}

----------------------------------------------------------------------------
(* components/InputForm: the text of a field and the number it stands for  *)
(* A text is the sequence of its characters.                               *)

DigitChars == <<"0", "1", "2", "3", "4", "5", "6", "7", "8", "9">>

IsDigit(ch) == \E k \in 1..10 : DigitChars[k] = ch

DigitValue(ch) == (CHOOSE k \in 1..10 : DigitChars[k] = ch) - 1

\* the first position at or after i of text that holds no digit
RECURSIVE DigitsEnd(_, _)
DigitsEnd(text, i) ==
  IF i <= Len(text) /\ IsDigit(text[i]) THEN DigitsEnd(text, i + 1) ELSE i

\* the natural number written by the digits text[i..j-1] (0 for none)
RECURSIVE DigitsValue(_, _, _)
DigitsValue(text, i, j) ==
  IF j <= i THEN 0
  ELSE 10 * DigitsValue(text, i, j - 1) + DigitValue(text[j - 1])

\* parseFloat: the longest prefix [sign] digits [. digits] of the text as a
\* number, NaN when it holds no digit (exponents are not modelled)
parseFloat(text) ==
  LET signed == Len(text) >= 1 /\ text[1] \in {"-", "+"}
      start == IF signed THEN 2 ELSE 1
      intEnd == DigitsEnd(text, start)
      hasPoint == intEnd <= Len(text) /\ text[intEnd] = "."
      fracEnd == IF hasPoint THEN DigitsEnd(text, intEnd + 1) ELSE intEnd
      fracLen == IF hasPoint THEN fracEnd - intEnd - 1 ELSE 0
      units == DigitsValue(text, start, intEnd) * Pow10(fracLen)
                 + DigitsValue(text, intEnd + 1, fracEnd)
      magnitude == Q(units, Pow10(fracLen))
  IN IF (intEnd - start) + fracLen = 0 THEN NaN
     ELSE IF signed /\ text[1] = "-" THEN Negate(magnitude)
     ELSE magnitude

\* x || fallback on numbers: the fallback for the falsy numbers NaN, +0 and -0
OrElse(x, fallback) == IF isNaN(x) \/ IsZero(x) THEN fallback ELSE x

\* String(n) for a natural number n: the value attribute of a select option
RECURSIVE String(_)
String(n) ==
  IF n < 10 THEN <<DigitChars[n + 1]>>
  ELSE Append(String(n \div 10), DigitChars[(n % 10) + 1])

\* Number(text) for the text toFixed gives of a finite number
Number(fixed) ==
  LET magnitude == Q(fixed.units, Pow10(fixed.digits))
  IN IF fixed.neg THEN Negate(magnitude) ELSE magnitude

\* handleChange: the input with one field replaced
handleChange(in, field, value) == [in EXCEPT ![field] = value]

----------------------------------------------------------------------------
(* The inputs the calls are made with                                      *)

\* the largest number of bars of one size
MaxBarCount == 4

\* the largest moment demand, in units of 2 000 000 lb-in
MaxMuSteps == 5

BValues == {N(-12), Zero, N(12)}

HValues == {N(20), N(24)}

DValues == {Zero, N(2), Q(43, 2)}

FcValues == {Zero, N(10000)} \cup {N(strength) : strength \in CONCRETE_STRENGTHS}

FyValues == {Zero} \cup {N(grade) : grade \in STEEL_GRADES}

EsValues == {Zero, N(10000000), N(29000000)}

DPrimeValues == {N(2), Q(5, 2)}

\* the bar sizes the steel area is made of
BarSizes == {"#4", "#6"}

\* InputForm, getTotalSteelArea: the area of `count` bars of size barSize
getTotalSteelArea(barSize, count) == Q(REBAR_AREAS[barSize] * count, 100)

AsValues == {getTotalSteelArea(barSize, count) : barSize \in BarSizes, count \in 0..MaxBarCount}

MuValues == {N(k * 2000000) : k \in -1..MaxMuSteps} \cup {N(2643840), N(4241160)}

\* the compression steel: none, or one bar
AsPrimeValues == {getTotalSteelArea(barSize, count) : barSize \in BarSizes, count \in 0..1}

\* every combination of the fields analyzeBeam reads, at each height
EngineInputs ==
  [b : BValues, h : HValues, d : DValues, d_prime : {DEFAULT_BEAM_INPUT.d_prime},
   fc : FcValues, fy : FyValues, Es : EsValues,
   As : AsValues, As_prime : {DEFAULT_BEAM_INPUT.As_prime}]

\* the default section and materials with every height, cover, depth and steel
DisplayInputs ==
  [b : {DEFAULT_BEAM_INPUT.b}, h : HValues, d : DValues, d_prime : DPrimeValues,
   fc : {DEFAULT_BEAM_INPUT.fc}, fy : {DEFAULT_BEAM_INPUT.fy},
   Es : {DEFAULT_BEAM_INPUT.Es}, As : AsValues, As_prime : AsPrimeValues]

\* a section whose depths are a = 12.75 and c = 15, at the effective depths
\* where a = d, c = d, and epsilon_t = epsilon_y (0.002), 0.004 and 0.005
BoundaryInputs ==
  [b : {N(12)}, h : {N(48)}, d : {Q(1275, 100), N(15), N(25), N(35), N(40)},
   d_prime : {DEFAULT_BEAM_INPUT.d_prime}, fc : {N(4000)}, fy : {N(60000)},
   Es : {N(30000000)}, As : {Q(867, 100)}, As_prime : {DEFAULT_BEAM_INPUT.As_prime}]

BeamInputs == EngineInputs \cup DisplayInputs \cup BoundaryInputs \cup {DEFAULT_BEAM_INPUT}

Demands ==
  [Mu : MuValues, b : {Zero, N(12)}, d : {N(20), Q(43, 2)},
   fc : FcValues, fy : FyValues]

\* the largest strain, in units of 0.0005
MaxStrainSteps == 12

\* tension strains: a grid around the limits, the sentinel and the outcome of 0/0
EpsilonTValues == {Q(k, 2000) : k \in -2..MaxStrainSteps} \cup {Infinity, NaN}

\* yield strains: the same grid and fy/Es of every modelled grade and modulus
EpsilonYValues ==
  {Q(k, 2000) : k \in 0..MaxStrainSteps}
    \cup {calculateEpsilonY(fy, Es) : fy \in FyValues, Es \in EsValues}

Strains == [epsilon_t : EpsilonTValues, epsilon_y : EpsilonYValues]

----------------------------------------------------------------------------
(* components/BeamVisualization and App                                    *)

\* Math.min(x, y)
MathMin(x, y) ==
  IF isNaN(x) \/ isNaN(y) THEN NaN
  ELSE IF Lt(x, y) THEN x
  ELSE IF Lt(y, x) THEN y
  ELSE IF SignBit(x) THEN x ELSE y

\* The elements of the two drawings that depict a, c and epsilon_t; an element
\* that is not rendered is Null.
BeamVisualization(in, res) ==
  LET b == in.b
      h == in.h
      svgWidth == N(300)
      svgHeight == N(400)
      padding == N(40)
      dimOffset == N(25)
      maxBeamWidth == Sub(Sub(svgWidth, Mul(N(2), padding)), dimOffset)
      maxBeamHeight == Sub(Sub(svgHeight, Mul(N(2), padding)), dimOffset)
      scale == MathMin(Div(maxBeamWidth, b), Div(maxBeamHeight, h))
      beamH == Mul(h, scale)
      beamY == padding
      neutralAxisY == IF res # Null THEN Add(beamY, Mul(res.c, scale)) ELSE Zero
      stressBlockY == IF res # Null THEN Add(beamY, Mul(res.a, scale)) ELSE Zero
      strainAxisY == Add(N(20), Mul(Div(res.c, h), N(160)))
  IN [stressBlock |->
        IF res # Null /\ Leq(res.a, h) /\ Gt(res.a, Zero)
          THEN [y |-> beamY, height |-> MathMin(Mul(res.a, scale), beamH)]
          ELSE Null,
      neutralAxis |->
        IF res # Null /\ Leq(res.c, h) /\ Gt(res.c, Zero)
          THEN [line |-> [y1 |-> neutralAxisY, y2 |-> neutralAxisY],
                label |-> [y |-> Add(neutralAxisY, N(4)), text |-> "N.A."]]
          ELSE Null,
      stressLabel |->
        IF res # Null /\ Leq(res.a, h) /\ Gt(res.a, Zero)
          THEN [y |-> Sub(stressBlockY, N(5)),
                text |-> <<"a = ", toFixed(res.a, 2), "\"">>]
          ELSE Null,
      strainDiagram |->
        IF res # Null
          THEN [neutralAxis |-> [y1 |-> strainAxisY, y2 |-> strainAxisY],
                compression |-> <<[x |-> N(50), y |-> N(20)],
                                  [x |-> N(50 + 30), y |-> N(20)],
                                  [x |-> N(50), y |-> strainAxisY]>>,
                tension |-> <<[x |-> N(50), y |-> strainAxisY],
                              [x |-> Add(N(50), MathMin(N(80),
                                            Mul(Div(res.epsilon_t, Q(3, 1000)), N(30)))),
                               y |-> N(180)],
                              [x |-> N(50), y |-> N(180)]>>,
                neutralAxisLabel |-> [y |-> Add(N(25), Mul(Div(res.c, h), N(160))),
                                      text |-> "N.A."],
                tensionLabel |-> <<"et = ", toFixed(res.epsilon_t, 4)>>]
          ELSE Null]

\* App, the validation of the recompute effect, without its test of d <= h
inputIsValid_NoDepthCheck(in) ==
  /\ Gt(in.b, Zero)
  /\ Gt(in.h, Zero)
  /\ Gt(in.d, Zero)
  /\ Gt(in.fc, Zero)
  /\ Gt(in.fy, Zero)
  /\ Gt(in.Es, Zero)
  /\ Gt(in.As, Zero)

\* App, the validation of the recompute effect
inputIsValid(in) ==
  /\ Gt(in.b, Zero)
  /\ Gt(in.h, Zero)
  /\ Gt(in.d, Zero)
  /\ Leq(in.d, in.h)
  /\ Gt(in.fc, Zero)
  /\ Gt(in.fy, Zero)
  /\ Gt(in.Es, Zero)
  /\ Gt(in.As, Zero)

\* what App renders of its state: the drawings and the warnings list (Null
\* for the placeholder of ResultsDisplay without results)
renderApp(in, res) ==
  [BeamVisualization |-> BeamVisualization(in, res),
   warningsList |-> IF res = Null THEN Null ELSE warningsList(res)]

\* the texts typed into the number fields of the form
FieldTexts ==
  [b |-> {<<>>, <<"1", "2">>},
   h |-> {<<"0">>, <<"2", ".", "5", "0", "4">>, <<"2", "0">>, <<"2", "4">>},
   d |-> {<<"-", "2">>, <<"2">>, <<"2", "1", ".", "5">>},
   As |-> {<<>>, <<"0", ".", "8", "8">>, <<"1", "6">>},
   As_prime |-> {<<"0", ".", "4", "4">>},
   d_prime |-> {<<"2">>}]

\* the texts typed into the field of the steel modulus
EsTexts == {<<>>, <<"-", "1">>}

\* the options chosen in the two selects
FcOptions == {5000}

FyOptions == {40000}

----------------------------------------------------------------------------
(* The calls                                                               *)

Init ==
  /\ results = Null
  /\ steel = Null
  /\ rendered = Null
  /\ section = Null
  /\ analyzed = Null
  /\ modal = Null
  /\ \/ pc = "analyzeBeam" /\ input \in BeamInputs /\ demand = Null /\ strain = Null
     \/ pc = "calculateRequiredSteel" /\ input = Null /\ demand \in Demands /\ strain = Null
     \/ pc = "calculatePhi" /\ input = Null /\ demand = Null /\ strain \in Strains

\* AnalyzeBeam with an engine that validates its input and throws, returning
\* nothing, when the validation fails
AnalyzeBeam_Validating ==
  /\ pc = "analyzeBeam"
  /\ results' = IF inputIsValid(input) THEN analyzeBeam(input) ELSE Null
  /\ analyzed' = input
  /\ pc' = "ResultsDisplay"
  /\ UNCHANGED <<modal, input, demand, steel, rendered, strain, section>>

AnalyzeBeam ==
  /\ pc = "analyzeBeam"
  /\ results' = analyzeBeam(input)
  /\ analyzed' = input
  /\ pc' = "ResultsDisplay"
  /\ UNCHANGED <<modal, input, demand, steel, rendered, strain, section>>

ResultsDisplay ==
  /\ pc = "ResultsDisplay"
  /\ rendered' = [warningsList |-> warningsList(results)]
  /\ pc' = "done"
  /\ UNCHANGED <<modal, input, results, demand, steel, strain, section, analyzed>>

CalculateRequiredSteel ==
  /\ pc = "calculateRequiredSteel"
  /\ steel' = calculateRequiredSteel(demand.Mu, demand.b, demand.d, demand.fc, demand.fy)
  /\ pc' = "done"
  /\ UNCHANGED <<modal, input, demand, results, rendered, strain, section, analyzed>>

\* the two calls analyzeBeam makes with the strains
CalculatePhi ==
  /\ pc = "calculatePhi"
  /\ section' = [phi |-> calculatePhi(strain.epsilon_t, strain.epsilon_y),
                 sectionType |-> classifySection(strain.epsilon_t, strain.epsilon_y)]
  /\ pc' = "done"
  /\ UNCHANGED <<modal, input, demand, results, steel, rendered, strain, analyzed>>

Next == AnalyzeBeam \/ ResultsDisplay \/ CalculateRequiredSteel \/ CalculatePhi

Spec == Init /\ [][Next]_vars


----------------------------------------------------------------------------
(* App: the state input / results, the renders and the recompute effect.   *)
(* pc is "render" when a render with a changed input is due, "effect" when *)
(* that render has committed and its effect is due, "rerender" when a       *)
(* render with changed results is due, and "idle" when the form waits for  *)
(* the user.                                                               *)

AppInit ==
  /\ input = DEFAULT_BEAM_INPUT
  /\ results = Null
  /\ rendered = Null
  /\ analyzed = Null
  /\ demand = Null
  /\ steel = Null
  /\ strain = Null
  /\ section = Null
  /\ modal = Null
  /\ pc = "render"

\* App renders its children with its current state
AppRender ==
  /\ pc \in {"render", "rerender"}
  /\ rendered' = renderApp(input, results)
  /\ pc' = IF pc = "render" THEN "effect" ELSE "idle"
  /\ UNCHANGED <<modal, input, results, analyzed, demand, steel, strain, section>>

\* the effect of App on [input]: setResults re-renders unless results stays null
RecomputeEffect ==
  /\ pc = "effect"
  /\ IF inputIsValid(input)
       THEN /\ results' = analyzeBeam(input)
            /\ analyzed' = input
            /\ pc' = "rerender"
       ELSE /\ results' = Null
            /\ analyzed' = Null
            /\ pc' = IF results = Null THEN "idle" ELSE "rerender"
  /\ UNCHANGED <<modal, input, rendered, demand, steel, strain, section>>

\* onChange of b, h, d, As, As_prime and d_prime: setInput with the field replaced
ChangeNumberField ==
  /\ pc = "idle"
  /\ \E field \in DOMAIN FieldTexts :
       \E text \in FieldTexts[field] :
         input' = handleChange(input, field, OrElse(parseFloat(text), Zero))
  /\ pc' = "render"
  /\ UNCHANGED <<modal, results, rendered, analyzed, demand, steel, strain, section>>

\* onChange of Es
ChangeEs ==
  /\ pc = "idle"
  /\ \E text \in EsTexts :
       input' = handleChange(input, "Es", OrElse(parseFloat(text), N(29000000)))
  /\ pc' = "render"
  /\ UNCHANGED <<modal, results, rendered, analyzed, demand, steel, strain, section>>

\* onChange of the select of fc
ChangeFc ==
  /\ pc = "idle"
  /\ \E strength \in FcOptions :
       input' = handleChange(input, "fc", parseFloat(String(strength)))
  /\ pc' = "render"
  /\ UNCHANGED <<modal, results, rendered, analyzed, demand, steel, strain, section>>

\* onChange of the select of fy
ChangeFy ==
  /\ pc = "idle"
  /\ \E grade \in FyOptions :
       input' = handleChange(input, "fy", parseFloat(String(grade)))
  /\ pc' = "render"
  /\ UNCHANGED <<modal, results, rendered, analyzed, demand, steel, strain, section>>

\* onClick of 'Auto': calculateEffectiveDepth, which estimates d as h - 2.5
\* and sets it, rounded to two decimals, when the estimate is positive
CalculateEffectiveDepth ==
  /\ pc = "idle"
  /\ LET estimated == Sub(input.h, Q(25, 10))
     IN IF Gt(estimated, Zero)
          THEN /\ input' = handleChange(input, "d", Number(toFixed(estimated, 2)))
               /\ pc' = "render"
          ELSE UNCHANGED <<input, pc>>
  /\ UNCHANGED <<modal, results, rendered, analyzed, demand, steel, strain, section>>

AppNext ==
  \/ AppRender
  \/ RecomputeEffect
  \/ ChangeNumberField
  \/ ChangeEs
  \/ ChangeFc
  \/ ChangeFy
  \/ CalculateEffectiveDepth

AppSpec == AppInit /\ [][AppNext]_vars

----------------------------------------------------------------------------
(* components/ExportModal.  The props isOpen, onClose, input and results   *)
(* come from the parent; the parent's onClose is recorded as a count of    *)
(* the calls handleExport makes of it.  pc is "modal" when no export is in *)
(* flight and "timeout" while handleExport awaits its 100 ms timer.        *)

\* the largest number of exports started
MaxExports == 2

\* the texts typed into the three fields of the modal
ProjectTexts == {"", "B-1"}

\* text || fallback on strings: the fallback for the empty string
OrElseText(text, fallback) == IF text = "" THEN fallback ELSE text

\* the state of the modal after its first render
ExportModalState ==
  [isOpen |-> FALSE,
   projectName |-> "", projectNumber |-> "", engineer |-> "",
   isExporting |-> FALSE,
   closure |-> Null,      \* what the handleExport in flight closed over
   generatePDF |-> Null,  \* the arguments of the latest call of generatePDF
   alerts |-> 0,          \* the alerts shown
   onCloseCalls |-> 0,    \* the calls handleExport made of onClose
   rejected |-> FALSE,    \* a promise of handleExport was rejected
   exports |-> 0]         \* the runs of handleExport started

\* what ExportModal renders: nothing when closed, else the fields and the
\* export button
ExportModalView(m) ==
  IF ~m.isOpen THEN Null
  ELSE [projectName |-> m.projectName,
        projectNumber |-> m.projectNumber,
        engineer |-> m.engineer,
        exportButton |-> [disabled |-> m.isExporting,
                          label |-> IF m.isExporting THEN "Generating..." ELSE "Export PDF"]]

ExportInit ==
  /\ input = DEFAULT_BEAM_INPUT
  /\ results = analyzeBeam(DEFAULT_BEAM_INPUT)
  /\ modal = ExportModalState
  /\ rendered = ExportModalView(ExportModalState)
  /\ analyzed = Null
  /\ demand = Null
  /\ steel = Null
  /\ strain = Null
  /\ section = Null
  /\ pc = "modal"

\* the parent renders the modal with another isOpen
SetIsOpen ==
  /\ \E isOpen \in BOOLEAN :
       /\ isOpen # modal.isOpen
       /\ modal' = [modal EXCEPT !.isOpen = isOpen]
  /\ rendered' = ExportModalView(modal')
  /\ UNCHANGED <<input, results, analyzed, demand, steel, strain, section, pc>>

\* onChange of the fields projectName, projectNumber and engineer
SetProjectField ==
  /\ rendered # Null
  /\ \E field \in {"projectName", "projectNumber", "engineer"} :
       \E text \in ProjectTexts :
         modal' = [modal EXCEPT ![field] = text]
  /\ rendered' = ExportModalView(modal')
  /\ UNCHANGED <<input, results, analyzed, demand, steel, strain, section, pc>>

\* handleExport up to its await: a click on the export button, which is
\* rendered enabled
HandleExport ==
  /\ rendered # Null
  /\ ~rendered.exportButton.disabled
  /\ modal.exports < MaxExports
  /\ modal' = [modal EXCEPT
                 !.isExporting = TRUE,
                 !.exports = @ + 1,
                 !.closure = [input |-> input, results |-> results,
                              projectName |-> modal.projectName,
                              projectNumber |-> modal.projectNumber,
                              engineer |-> modal.engineer]]
  /\ rendered' = ExportModalView(modal')
  /\ pc' = "timeout"
  /\ UNCHANGED <<input, results, analyzed, demand, steel, strain, section>>

\* handleExport after its await, without try / catch / finally: an error of
\* generatePDF rejects the promise and the rest is skipped
ResumeExport_NoFinally ==
  /\ pc = "timeout"
  /\ \E thrown \in BOOLEAN :
       modal' = [modal EXCEPT
                   !.generatePDF =
                     [input |-> modal.closure.input,
                      results |-> modal.closure.results,
                      options |->
                        [projectName |-> OrElseText(modal.closure.projectName,
                                                    "Reinforced Concrete Beam Design"),
                         projectNumber |-> modal.closure.projectNumber,
                         engineer |-> modal.closure.engineer],
                      isExporting |-> modal.isExporting],
                   !.rejected = thrown,
                   !.isExporting = IF thrown THEN @ ELSE FALSE,
                   !.onCloseCalls = IF thrown THEN @ ELSE @ + 1,
                   !.closure = Null]
  /\ rendered' = ExportModalView(modal')
  /\ pc' = "modal"
  /\ UNCHANGED <<input, results, analyzed, demand, steel, strain, section>>

\* handleExport after its await: generatePDF returns or throws, an error is
\* caught and alerted, and finally isExporting is reset and onClose called
ResumeExport ==
  /\ pc = "timeout"
  /\ \E thrown \in BOOLEAN :
       modal' = [modal EXCEPT
                   !.generatePDF =
                     [input |-> modal.closure.input,
                      results |-> modal.closure.results,
                      options |->
                        [projectName |-> OrElseText(modal.closure.projectName,
                                                    "Reinforced Concrete Beam Design"),
                         projectNumber |-> modal.closure.projectNumber,
                         engineer |-> modal.closure.engineer],
                      isExporting |-> modal.isExporting],
                   !.alerts = IF thrown THEN @ + 1 ELSE @,
                   !.isExporting = FALSE,
                   !.onCloseCalls = @ + 1,
                   !.closure = Null]
  /\ rendered' = ExportModalView(modal')
  /\ pc' = "modal"
  /\ UNCHANGED <<input, results, analyzed, demand, steel, strain, section>>

ExportNext ==
  \/ SetIsOpen
  \/ SetProjectField
  \/ HandleExport
  \/ ResumeExport

ExportSpec == ExportInit /\ [][ExportNext]_vars

\* the timer of handleExport fires and its continuation runs
ExportLiveSpec == ExportSpec /\ WF_vars(ResumeExport)

----------------------------------------------------------------------------
(* The calls of analyzeBeam on the numbers the form parses from decimal    *)
(* texts, evaluated in binary64.                                           *)

\* the binary64 numbers of an input whose fields are the decimals n/d
Binary64Input(in) == [field \in DOMAIN in |-> F64Of(in[field])]

\* two sections of Grade 80 and Grade 75 steel whose strain is, in the
\* decimals, exactly the yield strain and exactly 0.004
LimitSections ==
  {[DEFAULT_BEAM_INPUT EXCEPT !.b = N(10), !.d = N(20), !.fc = N(5000), !.fy = N(80000),
                              !.Es = N(30000000), !.As = Q(45, 10)],
   [DEFAULT_BEAM_INPUT EXCEPT !.b = N(14), !.h = N(38), !.d = N(35), !.fc = N(5000),
                              !.fy = N(75000), !.Es = N(28000000), !.As = Q(952, 100)]}

\* sections whose strain meets a limit exactly in the decimals, and sections
\* away from the limits
Binary64Decimals ==
  [b : {N(12)}, h : {N(48)},
   d : {Q(1275, 100), N(15), Q(43, 2), N(25), N(35), N(37), N(40)},
   d_prime : {DEFAULT_BEAM_INPUT.d_prime}, fc : {N(4000), N(5000)}, fy : {N(60000)},
   Es : {N(29000000), N(30000000)},
   As : {Zero, N(3), Q(476, 100), Q(867, 100)},
   As_prime : {DEFAULT_BEAM_INPUT.As_prime}] \cup LimitSections

Binary64Inputs == {Binary64Input(in) : in \in Binary64Decimals}

Binary64Init ==
  /\ results = Null
  /\ steel = Null
  /\ rendered = Null
  /\ section = Null
  /\ analyzed = Null
  /\ modal = Null
  /\ demand = Null
  /\ strain = Null
  /\ pc = "analyzeBeam"
  /\ input \in Binary64Inputs

\* analyzeBeam in binary64: every const of the function is computed once and
\* bound to its value (\E over the one value), in the order of the source
AnalyzeBeamBinary64 ==
  /\ pc = "analyzeBeam"
  /\ \E b \in {input.b}, d \in {input.d}, fc \in {input.fc},
        fy \in {input.fy}, Es \in {input.Es}, As \in {input.As} :
     \E beta1 \in {calculateBeta1Binary64(fc)},
        epsilon_y \in {calculateEpsilonYBinary64(fy, Es)},
        a \in {calculateStressBlockDepthBinary64(As, fy, fc, b)},
        rho \in {F64Div(As, F64Mul(b, d))},
        rho_min \in {calculateRhoMinBinary64(fc, fy)} :
     \E c \in {calculateNeutralAxisDepthBinary64(a, beta1)},
        rho_b \in {calculateRhoBalancedBinary64(fc, fy, beta1, epsilon_y, EPSILON_CU_Binary64)},
        rho_max \in {calculateRhoMaxBinary64(fc, fy, beta1, EPSILON_CU_Binary64)},
        Mn \in {calculateMnBinary64(As, fy, d, a)} :
     \E epsilon_t \in {calculateTensionStrainBinary64(d, c, EPSILON_CU_Binary64)} :
     \E phi \in {calculatePhiBinary64(epsilon_t, epsilon_y)},
        sectionType \in {classifySectionBinary64(epsilon_t, epsilon_y)},
        checks \in {performChecksBinary64(epsilon_t, epsilon_y, rho, rho_min, rho_max)} :
     \E phiMn \in {F64Mul(phi, Mn)},
        warnings \in {generateWarningsBinary64(checks, sectionType, rho, rho_min, rho_max, a, c, d)} :
       results' = [beta1 |-> beta1,
                   a |-> a,
                   c |-> c,
                   epsilon_t |-> epsilon_t,
                   epsilon_y |-> epsilon_y,
                   epsilon_cu |-> EPSILON_CU_Binary64,
                   rho |-> rho,
                   rho_b |-> rho_b,
                   rho_max |-> rho_max,
                   rho_min |-> rho_min,
                   Mn |-> Mn,
                   Mn_kip_ft |-> convertToKipFtBinary64(Mn),
                   phi |-> phi,
                   phiMn |-> phiMn,
                   phiMn_kip_ft |-> convertToKipFtBinary64(phiMn),
                   sectionType |-> sectionType,
                   isAdequatelyReinforced |-> checks.isAdequatelyReinforced,
                   isNotOverReinforced |-> checks.isNotOverReinforced,
                   steelYields |-> checks.steelYields,
                   warnings |-> warnings]
  /\ analyzed' = input
  /\ pc' = "ResultsDisplay"
  /\ UNCHANGED <<modal, input, demand, steel, rendered, strain, section>>

Binary64Next == AnalyzeBeamBinary64 \/ ResultsDisplay

Binary64Spec == Binary64Init /\ [][Binary64Next]_vars

----------------------------------------------------------------------------
(* Properties                                                              *)

IntMax(p, q) == IF p >= q THEN p ELSE q

C3_ChecksConsistent ==
  results # Null =>
    /\ results.steelYields <=> Geq(results.epsilon_t, results.epsilon_y)
    /\ results.isAdequatelyReinforced <=> Geq(results.rho, results.rho_min)
    /\ results.isNotOverReinforced <=> Leq(results.rho, results.rho_max)

C3_Witness ==
  /\ results # Null
  /\ ~results.steelYields
  /\ results.isAdequatelyReinforced
  /\ ~results.isNotOverReinforced
  /\ Lt(results.epsilon_t, results.epsilon_y)
  /\ Gt(results.rho, results.rho_max)

\* which of the seven diagnostic messages m is (0: none of them)
MessageKind(m) ==
  CASE m = MsgNoYield -> 1
    [] Len(m) = 12 /\ m[8] = ": Reinforcement ratio (" /\ m[10] = "%) is less than minimum (" -> 2
    [] Len(m) = 12 /\ m[8] = ": Reinforcement ratio (" /\ m[10] = "%) exceeds maximum (" -> 3
    [] m = MsgCompression -> 4
    [] m = MsgTransition -> 5
    [] m = MsgStressBlock -> 6
    [] m = MsgNeutralAxis -> 7
    [] OTHER -> 0

\* the trigger of the k-th message, read off the results and the input
Trigger(k) ==
  CASE k = 1 -> ~results.steelYields
    [] k = 2 -> ~results.isAdequatelyReinforced
    [] k = 3 -> ~results.isNotOverReinforced
    [] k = 4 -> results.sectionType = "compression-controlled"
    [] k = 5 -> results.sectionType = "transition"
    [] k = 6 -> Gt(results.a, input.d)
    [] k = 7 -> Geq(results.c, input.d)

\* C4: the warnings list is exactly the messages whose trigger holds, each
\* once, in the fixed order 1..7.
C4_WarningsInOrder ==
  results # Null =>
    LET w == results.warnings
    IN /\ \A i \in 1..Len(w) : MessageKind(w[i]) \in 1..7
       /\ \A i, j \in 1..Len(w) : i < j => MessageKind(w[i]) < MessageKind(w[j])
       /\ \A k \in 1..7 : (\E i \in 1..Len(w) : MessageKind(w[i]) = k) <=> Trigger(k)

C4_Witness ==
  /\ results # Null
  /\ Len(results.warnings) = 5
  /\ results.warnings[1] = MsgNoYield
  /\ MessageKind(results.warnings[2]) = 3
  /\ results.warnings[3] = MsgCompression
  /\ results.warnings[4] = MsgStressBlock
  /\ results.warnings[5] = MsgNeutralAxis

\* C5: a warnings entry begins with the word "Error" iff it is one of the two
\* geometry messages (a > d, c >= d), and the results display gives an entry
\* the class 'error' iff it begins with "Error" and 'warning' otherwise.
C5_ErrorPrefix ==
  rendered # Null =>
    LET items == rendered.warningsList
    IN /\ Len(items) = Len(results.warnings)
       /\ \A i \in 1..Len(items) :
            LET m == results.warnings[i]
            IN /\ items[i].text = m
               /\ startsWith(m, ErrorWord) <=> MessageKind(m) \in {6, 7}
               /\ items[i].className = "error" <=> startsWith(m, ErrorWord)
               /\ items[i].className = "warning" <=> ~startsWith(m, ErrorWord)

C5_Witness ==
  /\ rendered # Null
  /\ \E i \in 1..Len(rendered.warningsList) :
       /\ rendered.warningsList[i].className = "error"
       /\ rendered.warningsList[i].text = MsgNeutralAxis
  /\ \E i \in 1..Len(rendered.warningsList) :
       /\ rendered.warningsList[i].className = "warning"
       /\ rendered.warningsList[i].text = MsgCompression

BeamResultsFields ==
  {"beta1", "a", "c", "epsilon_t", "epsilon_y", "epsilon_cu", "rho", "rho_b",
   "rho_max", "rho_min", "Mn", "Mn_kip_ft", "phi", "phiMn", "phiMn_kip_ft",
   "sectionType", "isAdequatelyReinforced", "isNotOverReinforced",
   "steelYields", "warnings"}

\* C6: with c >= d the full BeamResults is still returned: the warnings hold
\* the neutral-axis error, and Mn, phi, phiMn and the converted moments are
\* the values of the usual formulas.
C6_InvalidGeometryComplete ==
  results # Null /\ Geq(results.c, input.d) =>
    /\ DOMAIN results = BeamResultsFields
    /\ \E i \in 1..Len(results.warnings) : results.warnings[i] = MsgNeutralAxis
    /\ results.Mn =
         Mul(Mul(input.As, input.fy), Sub(input.d, Div(results.a, N(2))))
    /\ results.phi \in {Q(90, 100), Q(65, 100)} \/ results.sectionType = "transition"
    /\ results.phiMn = Mul(results.phi, results.Mn)
    /\ results.Mn_kip_ft = Div(results.Mn, N(12000))
    /\ results.phiMn_kip_ft = Div(results.phiMn, N(12000))

C6_Witness ==
  /\ results # Null
  /\ Geq(results.c, input.d)
  /\ Gt(results.a, input.d)
  /\ isFinite(results.phiMn)
  /\ ~IsZero(results.phiMn)
  /\ \E i \in 1..Len(results.warnings) : results.warnings[i] = MsgNeutralAxis

\* C7: for As = 0 and b, d, fc, fy, Es > 0 the analysis returns a = 0, c = 0,
\* epsilon_t = +Infinity, rho = 0, isAdequatelyReinforced = false and the
\* minimum-reinforcement warning.
C7_ZeroSteel ==
  /\ results # Null
  /\ IsZero(input.As)
  /\ Gt(input.b, Zero) /\ Gt(input.d, Zero) /\ Gt(input.fc, Zero)
  /\ Gt(input.fy, Zero) /\ Gt(input.Es, Zero)
  => /\ IsZero(results.a)
     /\ IsZero(results.c)
     /\ results.epsilon_t = Infinity
     /\ IsZero(results.rho)
     /\ ~results.isAdequatelyReinforced
     /\ \E i \in 1..Len(results.warnings) : MessageKind(results.warnings[i]) = 2

C7_Witness ==
  /\ results # Null
  /\ IsZero(input.As)
  /\ Gt(input.b, Zero) /\ Gt(input.d, Zero) /\ Gt(input.fc, Zero)
  /\ Gt(input.fy, Zero) /\ Gt(input.Es, Zero)
  /\ results.epsilon_t = Infinity
  /\ Len(results.warnings) = 1

\* the radicand 1 - 2 R_n / (0.85 fc) of the demand, R_n = Mu / (0.9 b d^2)
Radicand ==
  LET R_n == Div(demand.Mu, Mul(Mul(Mul(Q(9, 10), demand.b), demand.d), demand.d))
  IN Sub(N(1), Div(Mul(N(2), R_n), Mul(Q(85, 100), demand.fc)))

\* the required ratio of the demand
RhoRequired == rhoRequired(demand.Mu, demand.b, demand.d, demand.fc, demand.fy)

\* the cap (0.85 beta1 fc / fy) * 0.003 / (0.003 + 0.004) of the demand
RhoMaxOfDemand ==
  Mul(Div(Mul(Mul(Q(85, 100), calculateBeta1(demand.fc)), demand.fc), demand.fy),
      Q(3, 7))

\* a message with some text in it
NonEmpty(message) == Len(message) > 0 /\ \E i \in 1..Len(message) : message[i] # ""

\* C8: when the radicand is negative or the required ratio is negative,
\* calculateRequiredSteel returns As_required = 0, isValid = false and a
\* non-empty message.
C8_Infeasible ==
  steel # Null /\ (Lt(Radicand, Zero) \/ Lt(RhoRequired, Zero)) =>
    /\ steel.As_required = Zero
    /\ steel.isValid = FALSE
    /\ NonEmpty(steel.message)

C8_Witness ==
  /\ steel # Null
  /\ Gt(demand.b, Zero) /\ Gt(demand.fc, Zero) /\ Gt(demand.fy, Zero)
  /\ Lt(Radicand, Zero)
  /\ steel.As_required = Zero
  /\ ~steel.isValid

\* C9: when the required ratio is a number >= 0, As_required is
\* rho_required * b * d and the result is invalid, with a message other than
\* "OK", iff rho_required > rho_max; otherwise it is valid with the message
\* "OK".  In every result isValid holds iff the message is "OK".
C9_RequiredSteel ==
  steel # Null =>
    /\ ~isNaN(RhoRequired) /\ Geq(RhoRequired, Zero) =>
         /\ steel.As_required = Mul(Mul(RhoRequired, demand.b), demand.d)
         /\ ~steel.isValid <=> Gt(RhoRequired, RhoMaxOfDemand)
         /\ ~steel.isValid => NonEmpty(steel.message) /\ steel.message # MsgOK
         /\ steel.isValid => steel.message = MsgOK
    /\ steel.isValid <=> steel.message = MsgOK

C9_Witness ==
  /\ steel # Null
  /\ steel.isValid
  /\ steel.message = MsgOK
  /\ Gt(RhoRequired, Zero)
  /\ Gt(steel.As_required, Zero)

\* C11: the result of analyzeBeam does not depend on h, d_prime or As_prime:
\* the input with any other height, cover and compression steel, and the same
\* b, d, fc, fy, Es and As, has the same BeamResults, field by field.
C11_IndependentOfDisplayFields ==
  results # Null =>
    \A h \in HValues, d_prime \in DPrimeValues, As_prime \in AsPrimeValues :
      analyzeBeam([input EXCEPT !.h = h, !.d_prime = d_prime, !.As_prime = As_prime])
        = results

C11_Witness ==
  /\ results # Null
  /\ input.h # DEFAULT_BEAM_INPUT.h
  /\ input.d_prime # DEFAULT_BEAM_INPUT.d_prime
  /\ Gt(input.As_prime, Zero)
  /\ Gt(results.Mn, Zero)
  /\ results = analyzeBeam([input EXCEPT !.h = DEFAULT_BEAM_INPUT.h,
                                         !.d_prime = DEFAULT_BEAM_INPUT.d_prime,
                                         !.As_prime = DEFAULT_BEAM_INPUT.As_prime])

\* the documented domain of the fields analyzeBeam reads, As apart
InDomain(in) ==
  /\ Gt(in.b, Zero) /\ Gt(in.d, Zero)
  /\ Gt(in.fc, Zero) /\ Gt(in.fy, Zero) /\ Gt(in.Es, Zero)

C13_PhiContinuous ==
  section # Null /\ Lt(strain.epsilon_y, Q(5, 1000)) =>
    /\ Eq(strain.epsilon_t, strain.epsilon_y) =>
         /\ phiTransition(strain.epsilon_t, strain.epsilon_y) = Q(65, 100)
         /\ section.phi = Q(65, 100)
    /\ Eq(strain.epsilon_t, Q(5, 1000)) =>
         /\ phiTransition(strain.epsilon_t, strain.epsilon_y) = Q(90, 100)
         /\ section.phi = Q(90, 100)

C13_Witness ==
  /\ section # Null
  /\ strain.epsilon_y = calculateEpsilonY(DEFAULT_BEAM_INPUT.fy, DEFAULT_BEAM_INPUT.Es)
  /\ strain.epsilon_t = Q(5, 1000)
  /\ phiTransition(strain.epsilon_t, strain.epsilon_y) = Q(90, 100)
  /\ section.phi = Q(90, 100)
  /\ section.sectionType = "tension-controlled"

\* the section is not in the transition zone and phi is one of the constants
NoTransition(sectionType, phi) ==
  /\ sectionType \in {"tension-controlled", "compression-controlled"}
  /\ phi \in {Q(90, 100), Q(65, 100)}

\* C20 as claimed: when epsilon_y >= 0.005, for every epsilon_t the section is
\* tension-controlled or compression-controlled and phi is 0.90 or 0.65, in a
\* direct call and in every analysis.
C20_Original ==
  /\ section # Null /\ Geq(strain.epsilon_y, Q(5, 1000)) =>
       NoTransition(section.sectionType, section.phi)
  /\ results # Null /\ Geq(results.epsilon_y, Q(5, 1000)) =>
       NoTransition(results.sectionType, results.phi)

\* C20 as amended: when epsilon_y >= 0.005, for every epsilon_t other than NaN
\* the section is tension-controlled or compression-controlled and phi is 0.90
\* or 0.65; for epsilon_t = NaN both comparisons fail, the section is
\* 'transition' and the interpolation is evaluated, giving NaN.
C20_TransitionUnreachable ==
  /\ section # Null /\ Geq(strain.epsilon_y, Q(5, 1000)) =>
       IF isNaN(strain.epsilon_t)
         THEN section.sectionType = "transition" /\ isNaN(section.phi)
         ELSE NoTransition(section.sectionType, section.phi)
  /\ results # Null /\ Geq(results.epsilon_y, Q(5, 1000)) =>
       IF isNaN(results.epsilon_t)
         THEN results.sectionType = "transition" /\ isNaN(results.phi)
         ELSE NoTransition(results.sectionType, results.phi)

C20_Witness ==
  /\ section # Null
  /\ Gt(strain.epsilon_y, Q(5, 1000))
  /\ Lt(strain.epsilon_t, Q(5, 1000))
  /\ Gt(strain.epsilon_t, Q(2, 1000))
  /\ section.sectionType = "compression-controlled"
  /\ section.phi = Q(65, 100)

RoundsTo(x, digits, units) ==
  isFinite(x) /\ toFixed(x, digits) = [neg |-> FALSE, units |-> units, digits |-> digits]

\* C15 as claimed: the default input gives a within 0.001 of 4.4118,
\* c = 5.1903, epsilon_t about 0.009423, a tension-controlled section,
\* phi = 0.90, Mn_kip_ft about 289.4 and phiMn_kip_ft about 260.5, where
\* "about" is agreement at the decimals given.
C15_Original ==
  results # Null /\ input = DEFAULT_BEAM_INPUT =>
    /\ Leq(Q(44108, 10000), results.a) /\ Leq(results.a, Q(44128, 10000))
    /\ RoundsTo(results.c, 4, 51903)
    /\ RoundsTo(results.epsilon_t, 6, 9423)
    /\ results.sectionType = "tension-controlled"
    /\ results.phi = Q(90, 100)
    /\ RoundsTo(results.Mn_kip_ft, 1, 2894)
    /\ RoundsTo(results.phiMn_kip_ft, 1, 2605)

\* C15 as amended: the same, with epsilon_t about 0.009427.
C15_DefaultInput ==
  results # Null /\ input = DEFAULT_BEAM_INPUT =>
    /\ Leq(Q(44108, 10000), results.a) /\ Leq(results.a, Q(44128, 10000))
    /\ RoundsTo(results.c, 4, 51903)
    /\ RoundsTo(results.epsilon_t, 6, 9427)
    /\ results.sectionType = "tension-controlled"
    /\ results.phi = Q(90, 100)
    /\ RoundsTo(results.Mn_kip_ft, 1, 2894)
    /\ RoundsTo(results.phiMn_kip_ft, 1, 2605)

C15_Witness ==
  /\ results # Null
  /\ input = DEFAULT_BEAM_INPUT
  /\ results.a = Q(75, 17)
  /\ results.epsilon_t = Q(9427, 1000000)
  /\ results.phiMn_kip_ft = Q(4428, 17)

\* |x|
MathAbs(x) == IF SignBit(x) THEN Negate(x) ELSE x

\* C17: beta1 lies in [0.65, 0.85] for every fc, so that whenever a is finite
\* c = a / beta1 is a finite number too, with |c| >= |a|.
C17_Beta1Range ==
  results # Null =>
    /\ Geq(results.beta1, Q(65, 100))
    /\ Leq(results.beta1, Q(85, 100))
    /\ isFinite(results.a) =>
         /\ isFinite(results.c)
         /\ results.c = Div(results.a, results.beta1)
         /\ Geq(MathAbs(results.c), MathAbs(results.a))

C17_Witness ==
  /\ results # Null
  /\ Gt(input.fc, N(8000))
  /\ results.beta1 = Q(65, 100)
  /\ isFinite(results.a) /\ Gt(results.a, Zero)
  /\ Gt(results.c, results.a)

\* b > 0, h > 0, d > 0, d <= h, fc > 0, fy > 0, Es > 0 and As > 0
PassesValidation(in) ==
  /\ Gt(in.b, Zero) /\ Gt(in.h, Zero) /\ Gt(in.d, Zero) /\ Leq(in.d, in.h)
  /\ Gt(in.fc, Zero) /\ Gt(in.fy, Zero) /\ Gt(in.Es, Zero) /\ Gt(in.As, Zero)

\* C18: once the recompute effect of App has run for the latest input,
\* results is non-null iff the input passes the validation, and then it is
\* analyzeBeam of that input; analyzeBeam is never called with an input that
\* fails the validation.
C18_RecomputeEffect ==
  /\ pc \in {"rerender", "idle"} =>
       /\ results # Null <=> PassesValidation(input)
       /\ results # Null => results = analyzeBeam(input)
  /\ analyzed # Null => PassesValidation(analyzed)

C18_Witness ==
  /\ pc = "idle"
  /\ input.h = N(20) /\ input.d = N(2) /\ input.As = N(16)
  /\ PassesValidation(input)
  /\ results = analyzeBeam(input)
  /\ analyzed = input
  /\ rendered = renderApp(input, results)

\* a depth the drawings cannot show: non-finite, non-positive or beyond h
NotDrawable(x, h) == ~isFinite(x) \/ Leq(x, Zero) \/ Gt(x, h)

\* C19 as claimed: in what App has rendered of its current input and results,
\* a stress-block depth a that is non-finite, non-positive or greater than h
\* has no stress-block rectangle and no a-label, and such a neutral-axis depth
\* c has no neutral-axis line and no N.A. label, in the cross-section view
\* and in the strain diagram alike.
C19_Original ==
  pc \in {"effect", "idle"} /\ results # Null =>
    LET view == rendered.BeamVisualization
    IN /\ NotDrawable(results.a, input.h) =>
            view.stressBlock = Null /\ view.stressLabel = Null
       /\ NotDrawable(results.c, input.h) =>
            /\ view.neutralAxis = Null
            /\ \/ view.strainDiagram = Null
               \/ "neutralAxis" \notin DOMAIN view.strainDiagram
                    /\ "neutralAxisLabel" \notin DOMAIN view.strainDiagram

\* x is a number: NaN, an infinity, a zero, or a fraction in lowest terms
IsNumber(x) ==
  /\ Len(x) = 2
  /\ \/ x \in {NaN, Infinity, NegInfinity, Zero, NegZero}
     \/ x[2] > 0 /\ x[1] # 0 /\ Gcd(Abs(x[1]), x[2]) = 1

NumberFields ==
  {"beta1", "a", "c", "epsilon_t", "epsilon_y", "epsilon_cu", "rho", "rho_b",
   "rho_max", "rho_min", "Mn", "Mn_kip_ft", "phi", "phiMn", "phiMn_kip_ft"}

\* C16: analyzeBeam never throws: after a call with any input, non-positive
\* dimensions, zero moduli and d > h included, there is a BeamResults with
\* every field populated: fifteen numbers (possibly infinite, negative or
\* NaN), the section type, the three flags and a warnings list of the seven
\* diagnostic messages.
C16_NeverThrows ==
  analyzed # Null =>
    /\ results # Null
    /\ DOMAIN results = BeamResultsFields
    /\ \A f \in NumberFields : IsNumber(results[f])
    /\ results.sectionType \in
         {"tension-controlled", "transition", "compression-controlled"}
    /\ results.steelYields \in BOOLEAN
    /\ results.isAdequatelyReinforced \in BOOLEAN
    /\ results.isNotOverReinforced \in BOOLEAN
    /\ \A i \in 1..Len(results.warnings) : MessageKind(results.warnings[i]) \in 1..7

C16_Witness ==
  /\ analyzed # Null
  /\ Gt(input.d, input.h) /\ Lt(input.b, Zero) /\ IsZero(input.Es) /\ IsZero(input.fc)
  /\ DOMAIN results = BeamResultsFields
  /\ results.epsilon_y = Infinity
  /\ ~isFinite(results.a)
  /\ isNaN(results.Mn)

\* C21: every run of handleExport ends the same way whether generatePDF
\* returns or throws: isExporting is true while the export is in flight and
\* was true when generatePDF was called; when the run ends isExporting is
\* false, handleExport has called onClose once for every run, no error has
\* left handleExport, and the state it leaves differs between the two
\* outcomes only in the alert shown.  Every run started ends.
C21_ExportTerminates ==
  /\ (pc = "timeout") ~> (pc = "modal")
  /\ [](/\ pc = "timeout" => modal.isExporting /\ modal.closure # Null
        /\ modal.generatePDF # Null => modal.generatePDF.isExporting
        /\ pc = "modal" => ~modal.isExporting /\ modal.onCloseCalls = modal.exports
        /\ ~modal.rejected
        /\ modal.alerts <= modal.exports)
  /\ [][pc = "timeout" /\ pc' = "modal" =>
          /\ modal'.generatePDF # Null
          /\ modal'.generatePDF.input = modal.closure.input
          /\ modal'.generatePDF.results = modal.closure.results
          /\ modal'.alerts \in {modal.alerts, modal.alerts + 1}
          /\ [modal' EXCEPT !.alerts = 0, !.generatePDF = Null]
               = [modal EXCEPT !.isExporting = FALSE,
                               !.onCloseCalls = @ + 1,
                               !.closure = Null,
                               !.alerts = 0,
                               !.generatePDF = Null]]_vars

C21_Witness ==
  /\ pc = "modal"
  /\ modal.exports = 2
  /\ modal.alerts = 1
  /\ modal.onCloseCalls = 2
  /\ ~modal.isExporting
  /\ ~modal.isOpen
  /\ modal.generatePDF.options.projectName = "Reinforced Concrete Beam Design"

\* the documented domain of analyzeBeam: b, d, fc, fy, Es > 0 and As >= 0
InDocumentedDomain(in) == InDomain(in) /\ Geq(in.As, Zero)

\* the warnings of res hold the message m
Warns(res, m) == \E i \in 1..Len(res.warnings) : res.warnings[i] = m

\* C22 as claimed: in the documented domain, whenever steelYields is false the
\* section is compression-controlled with phi = 0.65, and the 'steel does not
\* yield' warning never appears on a tension-controlled or transition section.
C22_Original ==
  results # Null /\ InDocumentedDomain(input) =>
    /\ ~results.steelYields =>
         results.sectionType = "compression-controlled" /\ results.phi = Q(65, 100)
    /\ Warns(results, MsgNoYield) =>
         results.sectionType \notin {"tension-controlled", "transition"}

\* the warnings of res hold a message of kind k
WarnsKind(res, k) == \E i \in 1..Len(res.warnings) : MessageKind(res.warnings[i]) = k

\* the documented domain of analyzeBeam, on binary64 numbers
InDocumentedDomainBinary64(in) ==
  /\ F64Gt(in.b, F64Zero(FALSE)) /\ F64Gt(in.d, F64Zero(FALSE))
  /\ F64Gt(in.fc, F64Zero(FALSE)) /\ F64Gt(in.fy, F64Zero(FALSE))
  /\ F64Gt(in.Es, F64Zero(FALSE)) /\ F64Geq(in.As, F64Zero(FALSE))

\* C23 as claimed: in the documented domain isNotOverReinforced (rho <= rho_max)
\* holds iff epsilon_t >= 0.004; hence a tension-controlled section is never
\* over the maximum, and the over-maximum warning appears only together with
\* the compression-controlled warning or the transition note.
C23_Original ==
  results # Null /\ InDocumentedDomainBinary64(input) =>
    /\ results.isNotOverReinforced <=> F64Geq(results.epsilon_t, F64Q(4, 1000))
    /\ results.sectionType = "tension-controlled" => results.isNotOverReinforced
    /\ WarnsKind(results, 3) =>
         Warns(results, MsgCompression) \/ Warns(results, MsgTransition)

\* C24 as claimed: in the documented domain steelYields (epsilon_t >= epsilon_y)
\* holds iff rho <= rho_b: the balanced ratio is the threshold of the
\* steel-yield check.
C24_Original ==
  results # Null /\ InDocumentedDomainBinary64(input) =>
    results.steelYields <=> F64Leq(results.rho, results.rho_b)

\* the input of the analysis of the section of the demand with the steel
\* area As and the steel modulus Es
DesignInput(As, Es) ==
  [DEFAULT_BEAM_INPUT EXCEPT !.b = demand.b, !.d = demand.d, !.fc = demand.fc,
                             !.fy = demand.fy, !.Es = Es, !.As = As]

\* x is a whole number of hundredths
IsHundredths(x) == isFinite(x) /\ 100 % x[2] = 0

\* C25 as claimed: for a demand in the documented domain with Mu > 0 that
\* calculateRequiredSteel finds valid, analyzeBeam of the same b, d, fc, fy,
\* any Es > 0 with fy/Es < 0.005 and As = As_required is tension-controlled
\* with phi = 0.90 and has phiMn >= Mu.  Stated for the demands whose
\* As_required is a whole number of hundredths of a square inch, where the
\* square root is exact and the analysis stays within the integers of TLC.
C25_Original ==
  /\ steel # Null /\ steel.isValid /\ IsHundredths(steel.As_required)
  /\ Gt(demand.Mu, Zero) /\ Gt(demand.b, Zero) /\ Gt(demand.d, Zero)
  /\ Gt(demand.fc, Zero) /\ Gt(demand.fy, Zero)
  => \A Es \in EsValues :
       Gt(Es, Zero) /\ Lt(Div(demand.fy, Es), Q(5, 1000)) =>
         LET r == analyzeBeam(DesignInput(steel.As_required, Es))
         IN /\ r.sectionType = "tension-controlled"
            /\ r.phi = Q(90, 100)
            /\ Geq(r.phiMn, demand.Mu)

\* C26: in the documented domain a > d implies c >= d, so the stress-block
\* error is never in the warnings without the neutral-axis error right
\* after it.
C26_ErrorsNested ==
  results # Null /\ InDocumentedDomain(input) =>
    /\ Gt(results.a, input.d) => Geq(results.c, input.d)
    /\ \A i \in 1..Len(results.warnings) :
         results.warnings[i] = MsgStressBlock =>
           /\ i < Len(results.warnings)
           /\ results.warnings[i + 1] = MsgNeutralAxis

C26_Witness ==
  /\ results # Null /\ InDocumentedDomain(input)
  /\ Gt(results.a, input.d)
  /\ Gt(results.c, results.a)
  /\ Len(results.warnings) >= 2
  /\ results.warnings[Len(results.warnings) - 1] = MsgStressBlock
  /\ results.warnings[Len(results.warnings)] = MsgNeutralAxis

\* C27: in the documented domain c >= d gives epsilon_t <= 0, steelYields
\* false, a compression-controlled section and phi = 0.65, so whenever the
\* neutral-axis error is in the warnings the 'steel does not yield' warning
\* and the compression-controlled warning are there too, before it.
C27_NeutralAxisBelowSteel ==
  results # Null /\ InDocumentedDomain(input) =>
    /\ Geq(results.c, input.d) =>
         /\ Leq(results.epsilon_t, Zero)
         /\ ~results.steelYields
         /\ results.sectionType = "compression-controlled"
         /\ results.phi = Q(65, 100)
    /\ \A i \in 1..Len(results.warnings) :
         results.warnings[i] = MsgNeutralAxis =>
           /\ \E j \in 1..(i - 1) : results.warnings[j] = MsgNoYield
           /\ \E j \in 1..(i - 1) : results.warnings[j] = MsgCompression

C27_Witness ==
  /\ results # Null /\ InDocumentedDomain(input)
  /\ Eq(results.c, input.d)
  /\ Leq(results.a, input.d)
  /\ IsZero(results.epsilon_t)
  /\ Len(results.warnings) = 4
  /\ results.warnings[1] = MsgNoYield
  /\ results.warnings[3] = MsgCompression
  /\ results.warnings[4] = MsgNeutralAxis

\* the warnings of res hold an entry that begins with "Error"
HasError(res) == \E i \in 1..Len(res.warnings) : startsWith(res.warnings[i], ErrorWord)

\* C28: in the documented domain a result without an entry beginning with
\* "Error" has c < d, a <= d, epsilon_t > 0 and Mn >= 0, with Mn > 0 when
\* As > 0; a zero or negative strain is never returned without an Error entry.
C28_NoErrorMeansValid ==
  results # Null /\ InDocumentedDomain(input) =>
    /\ ~HasError(results) =>
         /\ Lt(results.c, input.d)
         /\ Leq(results.a, input.d)
         /\ Gt(results.epsilon_t, Zero)
         /\ Geq(results.Mn, Zero)
         /\ Gt(input.As, Zero) => Gt(results.Mn, Zero)
    /\ Leq(results.epsilon_t, Zero) => HasError(results)

C28_Witness ==
  /\ results # Null /\ InDocumentedDomain(input)
  /\ ~HasError(results)
  /\ results.sectionType = "compression-controlled"
  /\ Lt(results.c, input.d)
  /\ Gt(results.epsilon_t, Zero)
  /\ Gt(results.Mn, Zero)

\* C29 as claimed: in every render of App the results handed to
\* BeamVisualization and ResultsDisplay were computed from the input handed
\* to BeamVisualization and InputForm in that render: after a render, results
\* that are not null are analyzeBeam of the current input, which passes the
\* validation.
C29_Original ==
  pc \in {"effect", "idle"} /\ results # Null =>
    /\ rendered = renderApp(input, results)
    /\ PassesValidation(input)
    /\ analyzed = input
    /\ results = analyzeBeam(input)

\* the effective depth passes the validation of App: d > 0 and d <= h
DepthPasses(in) == Gt(in.d, Zero) /\ Leq(in.d, in.h)

\* C30 as claimed: a click on 'Auto' leaves the input unchanged when
\* h - 2.5 <= 0; otherwise it changes only the field d, to h - 2.5 rounded to
\* two decimals, the new d satisfies 0 < d <= h, and an input whose depth
\* passed the validation still passes it.
C30_Original ==
  [][CalculateEffectiveDepth =>
       IF Leq(Sub(input.h, Q(25, 10)), Zero)
         THEN input' = input
         ELSE /\ input' = [input EXCEPT !.d = input'.d]
              /\ IsHundredths(input'.d)
              /\ Leq(MathAbs(Sub(input'.d, Sub(input.h, Q(25, 10)))), Q(5, 1000))
              /\ Gt(input'.d, Zero)
              /\ Leq(input'.d, input.h)
              /\ DepthPasses(input) => DepthPasses(input')]_vars

====
